---------------------------- MODULE Spec2Model ----------------------------
(***************************************************************************)
(* Hand-controlled Tetris (class Tetris) and its caller loop.              *)
(*                                                                         *)
(* Conventions of the model                                                *)
(*  - Screen coordinates are whole pixels.  Wherever the source multiplies *)
(*    a pixel distance by a fraction, the product is truncated toward zero.*)
(*  - Pinch distances are in thousandths of the normalised frame size      *)
(*    (0.09 is 90).                                                        *)
(*  - Timestamps are kept relative to the timestamp of the current frame:  *)
(*    sinceDrop is currentTime - lastDropTime, and so on, each saturated   *)
(*    just above the largest threshold it is compared with.                *)
(*  - JavaScript object identity of pieces is an integer id; 0 is null.    *)
(*  - Fields that only the renderer reads (color, circleAngle,             *)
(*    circleRadius, pieceCenter) are left out.                             *)
(***************************************************************************)
EXTENDS Integers, Sequences, FiniteSets, TLC

(***************************************************************************)
(* Program constants                                                       *)
(***************************************************************************)
COLS == 10
ROWS == 20
CELL_SIZE == 24
SPAWN_ZONE_HEIGHT == 220
SPAWN_TICKS == 6
HOLD_SLOT_HEIGHT == 70
HOLD_SLOT_WIDTH == 90
MAX_HOLDS == 6
MAX_PER_HOLD == 3
HOLD_SPAWN_DELAY == 2000
dropInterval == 600
GRAB_THRESHOLD == 90
RELEASE_THRESHOLD == 150
TARGET_RADIUS == 120

\* Object.keys(SHAPES), in source order
TypeSeq == <<"I", "O", "T", "S", "Z", "J", "L">>
AllTypes == {TypeSeq[i] : i \in 1..Len(TypeSeq)}

SHAPES(type) ==
    CASE type = "I" -> << <<1, 1, 1, 1>> >>
      [] type = "O" -> << <<1, 1>>, <<1, 1>> >>
      [] type = "T" -> << <<0, 1, 0>>, <<1, 1, 1>> >>
      [] type = "S" -> << <<0, 1, 1>>, <<1, 1, 0>> >>
      [] type = "Z" -> << <<1, 1, 0>>, <<0, 1, 1>> >>
      [] type = "J" -> << <<1, 0, 0>>, <<1, 1, 1>> >>
      [] type = "L" -> << <<0, 0, 1>>, <<1, 1, 1>> >>

\* An empty board cell (0 in the source; locked cells hold the piece type)
Free == "0"

(***************************************************************************)
(* Bounds of the model                                                     *)
(***************************************************************************)
\* piece types Math.random may pick in the game specification: TypeSeq[1..NTypes]
NTypes == 2
\* pieces spawned in one run of the game specification
MaxPieces == 2
\* tracked frames in one run of the game specification
MaxFrames == 3
\* pieces spawned in one run of the drop specification
MaxSupply == 4

TypesInPlay == {TypeSeq[i] : i \in 1..NTypes}

Min(a, b) == IF a < b THEN a ELSE b
Abs(a) == IF a < 0 THEN -a ELSE a

\* Op(v), with v worked out once (a local constant of the source)
At(v, Op(_)) == CHOOSE r \in {Op(x) : x \in {v}} : TRUE

(***************************************************************************)
(* Board and piece geometry                                                *)
(***************************************************************************)
EmptyRow == [c \in 1..COLS |-> Free]

createEmptyBoard == [r \in 1..ROWS |-> EmptyRow]

\* filled cells of a shape, as <<row, col>> counted from 0
Cells(shape) ==
    {rc \in (0..(Len(shape) - 1)) \X (0..(Len(shape[1]) - 1)) :
        shape[rc[1] + 1][rc[2] + 1] = 1}

canPlace(piece, b) ==
    \A rc \in Cells(piece.shape) :
        LET boardX == piece.x + rc[2]
            boardY == piece.y + rc[1]
        IN  /\ ~(boardX < 0 \/ boardX >= COLS \/ boardY >= ROWS)
            /\ ~(boardY >= 0 /\ b[boardY + 1][boardX + 1] # Free)

\* canMove that leaves dy out
canMove_Sideways(piece, b, dx, dy) ==
    \A rc \in Cells(piece.shape) :
        LET newX == piece.x + rc[2] + dx
            newY == piece.y + rc[1]
        IN  /\ ~(newX < 0 \/ newX >= COLS \/ newY >= ROWS)
            /\ ~(newY >= 0 /\ b[newY + 1][newX + 1] # Free)

canMove(piece, b, dx, dy) ==
    \A rc \in Cells(piece.shape) :
        LET newX == piece.x + rc[2] + dx
            newY == piece.y + rc[1] + dy
        IN  /\ ~(newX < 0 \/ newX >= COLS \/ newY >= ROWS)
            /\ ~(newY >= 0 /\ b[newY + 1][newX + 1] # Free)

\* the clockwise quarter turn built by the loops of rotatePiece
Rotated(shape) ==
    LET rows == Len(shape)
        cols == Len(shape[1])
    IN  [col \in 1..cols |-> [k \in 1..rows |-> shape[rows + 1 - k][col]]]

Kicks == <<-1, 1, -2, 2>>

\* the wall-kick loop: the piece at the first offset that fits, or the
\* piece with valid = FALSE and x as it was
RECURSIVE TryKicks(_, _, _)
TryKicks(piece, b, i) ==
    IF i > Len(Kicks) THEN [piece |-> piece, valid |-> FALSE]
    ELSE LET kicked == [piece EXCEPT !.x = piece.x + Kicks[i]]
         IN  IF canPlace(kicked, b) THEN [piece |-> kicked, valid |-> TRUE]
             ELSE TryKicks(piece, b, i + 1)

\* rotatePiece without the revert of the shape
rotatePiece_NoRevert(piece, b) ==
    IF piece.type = "O" THEN piece
    ELSE At([piece EXCEPT !.shape = Rotated(piece.shape)], LAMBDA turned :
             IF canPlace(turned, b) THEN turned ELSE TryKicks(turned, b, 1).piece)

\* rotatePiece whose last failed kick is not taken back
rotatePiece_KickKept(piece, b) ==
    IF piece.type = "O" THEN piece
    ELSE LET oldShape == piece.shape
         IN  At([piece EXCEPT !.shape = Rotated(oldShape)], LAMBDA turned :
                 IF canPlace(turned, b) THEN turned
                 ELSE At(TryKicks(turned, b, 1), LAMBDA k :
                          IF k.valid THEN k.piece
                          ELSE [k.piece EXCEPT !.shape = oldShape,
                                               !.x = @ + Kicks[Len(Kicks)]]))

rotatePiece(piece, b) ==
    IF piece.type = "O" THEN piece
    ELSE LET oldShape == piece.shape
         IN  At([piece EXCEPT !.shape = Rotated(oldShape)], LAMBDA turned :
                 IF canPlace(turned, b) THEN turned
                 ELSE At(TryKicks(turned, b, 1), LAMBDA k :
                          IF k.valid THEN k.piece
                          ELSE [k.piece EXCEPT !.shape = oldShape]))

lockPiece(piece, b) ==
    At(Cells(piece.shape), LAMBDA cells :
        [r \in 1..ROWS |-> [c \in 1..COLS |->
            IF <<r - 1 - piece.y, c - 1 - piece.x>> \in cells
            THEN piece.type ELSE b[r][c]]])

RowFull(row) == \A c \in 1..COLS : row[c] # Free

\* the row emptied where it is, the rows above it left in place
RemoveRow_InPlace(b, row) == [b EXCEPT ![row + 1] = EmptyRow]

\* board.splice(row, 1); board.unshift(empty row)
RemoveRow(b, row) ==
    [r \in 1..ROWS |-> IF r = 1 THEN EmptyRow
                       ELSE IF r <= row + 1 THEN b[r - 1] ELSE b[r]]

\* the loop of clearLines from index row (counted from 0) upward; a removed
\* row leaves the index where it is
RECURSIVE ClearFrom(_, _)
ClearFrom(b, row) ==
    IF row < 0 THEN b
    ELSE IF RowFull(b[row + 1])
         THEN At(RemoveRow(b, row), LAMBDA cut : ClearFrom(cut, row))
    ELSE ClearFrom(b, row - 1)

\* the lowest full row removed and no other
clearLines_Once(b) ==
    IF \E r \in 0..(ROWS - 1) : RowFull(b[r + 1])
    THEN RemoveRow(b, CHOOSE r \in 0..(ROWS - 1) :
                          /\ RowFull(b[r + 1])
                          /\ \A q \in (r + 1)..(ROWS - 1) : ~RowFull(b[q + 1]))
    ELSE b

clearLines(b) == ClearFrom(b, ROWS - 1)

\* a piece created at the top row of the board, not above it
NewPiece_AtTopRow(type) ==
    [type |-> type, shape |-> SHAPES(type),
     x |-> (COLS - Len(SHAPES(type)[1])) \div 2, y |-> -Len(SHAPES(type)),
     isGrabbed |-> FALSE, inPlayZone |-> FALSE,
     screenX |-> 0, screenY |-> 0, targetScreenX |-> 0, targetScreenY |-> 0]

\* a piece as spawnPiece creates it
NewPiece(type) ==
    LET shape == SHAPES(type)
    IN  [type |-> type, shape |-> shape,
         x |-> (COLS - Len(shape[1])) \div 2,
         y |-> -SPAWN_TICKS - Len(shape),
         isGrabbed |-> FALSE, inPlayZone |-> FALSE,
         screenX |-> 0, screenY |-> 0,
         targetScreenX |-> 0, targetScreenY |-> 0]


(***************************************************************************)
(* Viewport and zone layout (recomputed by every update)                   *)
(***************************************************************************)
\* canvas.width and canvas.height handed to update
canvasWidth == 1280
canvasHeight == 800

boardWidth == COLS * CELL_SIZE
boardHeight == ROWS * CELL_SIZE
offsetX == (canvasWidth - boardWidth) \div 2
offsetY == canvasHeight - boardHeight - 60
spawnZoneTop == offsetY - SPAWN_ZONE_HEIGHT
spawnZoneBottom == offsetY
holdGap == 20
holdMargin == 40
holdTopY == 60
holdLeftX == holdMargin
holdRightX == canvasWidth - HOLD_SLOT_WIDTH - holdMargin

\* slot i is counted from 1 here (index i - 1 in the source)
HoldX(i) == IF i - 1 < 3 THEN holdLeftX ELSE holdRightX
HoldY(i) == IF i - 1 < 3 THEN holdTopY + (i - 1) * (HOLD_SLOT_HEIGHT + holdGap)
            ELSE holdTopY + (i - 4) * (HOLD_SLOT_HEIGHT + holdGap)

HoldTolerance == 10

inHoldBounds(i, x, y) ==
    /\ x >= HoldX(i) - HoldTolerance
    /\ x <= HoldX(i) + HOLD_SLOT_WIDTH + HoldTolerance
    /\ y >= HoldY(i) - HoldTolerance
    /\ y <= HoldY(i) + HOLD_SLOT_HEIGHT + HoldTolerance

\* the rectangle of the spawn zone and the board below it
inSpawnZone_ToFloor(x, y) ==
    /\ x >= offsetX /\ x <= offsetX + boardWidth
    /\ y >= spawnZoneTop /\ y <= spawnZoneBottom + boardHeight

inSpawnZone(x, y) ==
    /\ x >= offsetX /\ x <= offsetX + boardWidth
    /\ y >= spawnZoneTop /\ y <= spawnZoneBottom

(***************************************************************************)
(* The game state threaded through one update: a record w with fields      *)
(* board, pieces, currentPiece, holds, sinceDrop, sinceHold, pendingSpawn, *)
(* inter, nextId, isDraggingPiece, draggedPiece, and effect: what each     *)
(* hand's processing changed in the frame.                                 *)
(***************************************************************************)
Sides == <<"left", "right">>
IDLE == "IDLE"
TARGETING == "TARGETING"
GRABBING == "GRABBING"
DRAGGING == "DRAGGING"

Null == <<>>
Undefined == -1

\* d * num / den, truncated toward zero
Frac(d, num, den) == IF d >= 0 THEN (d * num) \div den ELSE -(((-d) * num) \div den)

ISqrt(n) == CHOOSE r \in 0..n : r * r <= n /\ n < (r + 1) * (r + 1)

SetPiece(w, id, rec) == [w EXCEPT !.pieces[id] = rec]
SetInter(w, side, rec) == [w EXCEPT !.inter[side] = rec]

spawnPiece(w, type) ==
    [w EXCEPT !.pieces = (w.nextId :> NewPiece(type)) @@ w.pieces,
              !.currentPiece = w.nextId,
              !.nextId = w.nextId + 1]

Dist2(x, y, piece) ==
    (x - piece.screenX) * (x - piece.screenX) + (y - piece.screenY) * (y - piece.screenY)

\* the candidates of findNearestGrabbablePiece in the order it visits them:
\* the current piece (i = 0), then the top piece of hold i
Candidate(w, i) ==
    IF i = 0 THEN w.currentPiece
    ELSE IF Len(w.holds[i].pieces) > 0
         THEN w.holds[i].pieces[Len(w.holds[i].pieces)] ELSE 0

\* the comparison that lets a later candidate at the same distance win
Nearer_OrAsNear(d, best) == best.piece = 0 \/ d <= best.dist2

\* if (d < minDist), minDist being Infinity while nothing is found
Nearer(d, best) == best.piece = 0 \/ d < best.dist2

RECURSIVE NearestFrom(_, _, _, _, _)
NearestFrom(w, x, y, i, best) ==
    IF i > MAX_HOLDS THEN best
    ELSE At(Candidate(w, i), LAMBDA c :
            IF c = 0 THEN NearestFrom(w, x, y, i + 1, best)
            ELSE At(Dist2(x, y, w.pieces[c]), LAMBDA d :
                     IF Nearer(d, best)
                     THEN At([piece |-> c, dist2 |-> d,
                              isPlayZone |-> IF i = 0 THEN w.pieces[c].inPlayZone
                                             ELSE FALSE],
                             LAMBDA nearer : NearestFrom(w, x, y, i + 1, nearer))
                     ELSE NearestFrom(w, x, y, i + 1, best)))

\* piece = 0 stands for the null result
findNearestGrabbablePiece(w, x, y) ==
    NearestFrom(w, x, y, 0, [piece |-> 0, dist2 |-> 0, isPlayZone |-> FALSE])

\* index of the first hold slot whose stack contains the piece, 0 if none
findHoldContaining(w, id) ==
    LET in == {i \in 1..MAX_HOLDS : \E k \in 1..Len(w.holds[i].pieces) :
                                        w.holds[i].pieces[k] = id}
    IN  IF in = {} THEN 0 ELSE CHOOSE i \in in : \A j \in in : i <= j

\* the splice without the reset of the type
SpliceFromHold_KeepTag(w, i, id) ==
    LET ps == w.holds[i].pieces
        idx == CHOOSE k \in 1..Len(ps) : ps[k] = id /\ \A j \in 1..(k - 1) : ps[j] # id
        rest == [k \in 1..(Len(ps) - 1) |-> IF k < idx THEN ps[k] ELSE ps[k + 1]]
    IN  [w EXCEPT !.holds[i].pieces = rest]

\* hold.pieces.splice(indexOf(piece), 1), type reset when the stack empties
SpliceFromHold(w, i, id) ==
    LET ps == w.holds[i].pieces
        idx == CHOOSE k \in 1..Len(ps) : ps[k] = id /\ \A j \in 1..(k - 1) : ps[j] # id
        rest == [k \in 1..(Len(ps) - 1) |-> IF k < idx THEN ps[k] ELSE ps[k + 1]]
    IN  [w EXCEPT !.holds[i].pieces = rest,
                  !.holds[i].type = IF Len(rest) = 0 THEN "null" ELSE @]

\* the piece left in the slot it was in
removeFromHolds_Keep(w, id) == w

removeFromHolds(w, id) ==
    LET i == findHoldContaining(w, id)
    IN  IF i = 0 THEN w ELSE SpliceFromHold(w, i, id)

\* the type test without the capacity test
canAdd_AnyCount(hold, type) == hold.type = "null" \/ hold.type = type

\* the capacity test without the type test
canAdd_AnyType(hold, type) == Len(hold.pieces) < MAX_PER_HOLD

canAdd(hold, type) ==
    /\ Len(hold.pieces) < MAX_PER_HOLD
    /\ (hold.type = "null" \/ hold.type = type)

\* hold.pieces.push(piece); hold.type = piece.type, with inPlayZone cleared
PushToHold(w, i, id) ==
    [w EXCEPT !.pieces[id].inPlayZone = FALSE,
              !.holds[i].pieces = Append(@, id),
              !.holds[i].type = w.pieces[id].type]

\* index of the last hold slot whose tolerance rectangle holds the point
FirstHoldAt_Last(x, y) ==
    LET in == {i \in 1..MAX_HOLDS : inHoldBounds(i, x, y)}
    IN  IF in = {} THEN 0 ELSE CHOOSE i \in in : \A j \in in : i >= j

\* index of the first hold slot whose tolerance rectangle holds the point
FirstHoldAt(x, y) ==
    LET in == {i \in 1..MAX_HOLDS : inHoldBounds(i, x, y)}
    IN  IF in = {} THEN 0 ELSE CHOOSE i \in in : \A j \in in : i <= j

\* handleDrop that swaps the active piece into the slot wherever it is
handleDrop_SwapInPlay(w, id, x, y, skew) ==
    LET h == FirstHoldAt(x, y)
    IN  IF h # 0
        THEN IF canAdd(w.holds[h], w.pieces[id].type)
             THEN At(IF id = w.currentPiece
                     THEN [w EXCEPT !.currentPiece = 0,
                                    !.sinceHold = -skew,
                                    !.pendingSpawn = TRUE]
                     ELSE removeFromHolds(w, id),
                     LAMBDA removed : PushToHold(removed, h, id))
             ELSE w
        ELSE IF inSpawnZone(x, y)
        THEN LET src == findHoldContaining(w, id)
             IN  IF src = 0 THEN w
                 ELSE At(SpliceFromHold(w, src, id), LAMBDA popped :
                      At(LET cur == popped.currentPiece
                         IN  IF /\ cur # 0
                                /\ canAdd(popped.holds[src], popped.pieces[cur].type)
                             THEN PushToHold(popped, src, cur)
                             ELSE popped,
                         LAMBDA swapped :
                             LET shape == swapped.pieces[id].shape
                             IN  [swapped EXCEPT
                                     !.currentPiece = id,
                                     !.pieces[id].x = (COLS - Len(shape[1])) \div 2,
                                     !.pieces[id].y = -SPAWN_TICKS - Len(shape),
                                     !.pieces[id].inPlayZone = FALSE]))
        ELSE w

\* skew: how far performance.now() has moved past the frame's timestamp
\* when handleDrop reads it
handleDrop(w, id, x, y, skew) ==
    LET h == FirstHoldAt(x, y)
    IN  IF h # 0
        THEN IF canAdd(w.holds[h], w.pieces[id].type)
             THEN At(IF id = w.currentPiece
                     THEN [w EXCEPT !.currentPiece = 0,
                                    !.sinceHold = -skew,
                                    !.pendingSpawn = TRUE]
                     ELSE removeFromHolds(w, id),
                     LAMBDA removed : PushToHold(removed, h, id))
             ELSE w
        ELSE IF inSpawnZone(x, y)
        THEN LET src == findHoldContaining(w, id)
             IN  IF src = 0 THEN w
                 ELSE At(SpliceFromHold(w, src, id), LAMBDA popped :
                      At(LET cur == popped.currentPiece
                         IN  IF /\ cur # 0
                                /\ ~popped.pieces[cur].inPlayZone
                                /\ canAdd(popped.holds[src], popped.pieces[cur].type)
                             THEN PushToHold(popped, src, cur)
                             ELSE popped,
                         LAMBDA swapped :
                             LET shape == swapped.pieces[id].shape
                             IN  [swapped EXCEPT
                                     !.currentPiece = id,
                                     !.pieces[id].x = (COLS - Len(shape[1])) \div 2,
                                     !.pieces[id].y = -SPAWN_TICKS - Len(shape),
                                     !.pieces[id].inPlayZone = FALSE]))
        ELSE w

\* lockPiece(); clearLines(); spawnPiece()
LockClearSpawn(w, type) ==
    At(lockPiece(w.pieces[w.currentPiece], w.board), LAMBDA locked :
        At(clearLines(locked), LAMBDA cleared :
            At([w EXCEPT !.board = cleared], LAMBDA settled : spawnPiece(settled, type))))

RECURSIVE FallFrom(_, _)
FallFrom(piece, b) ==
    IF canMove(piece, b, 0, 1)
    THEN At([piece EXCEPT !.y = @ + 1], LAMBDA lower : FallFrom(lower, b))
    ELSE piece

\* the piece locked where it is, without the fall
hardDrop_InPlace(w, type) ==
    IF w.currentPiece = 0 THEN w ELSE LockClearSpawn(w, type)

hardDrop(w, type) ==
    IF w.currentPiece = 0 THEN w
    ELSE At(SetPiece(w, w.currentPiece, FallFrom(w.pieces[w.currentPiece], w.board)),
            LAMBDA landed : LockClearSpawn(landed, type))

dropPiece(w, type) ==
    IF w.currentPiece = 0 \/ w.pieces[w.currentPiece].isGrabbed THEN w
    ELSE LET cur == w.currentPiece
             p == w.pieces[cur]
         IN  IF p.y < 0
             THEN SetPiece(w, cur, [p EXCEPT !.y = p.y + 1,
                                             !.inPlayZone = IF p.y + 1 >= 0 THEN TRUE ELSE @])
             ELSE IF canMove(p, w.board, 0, 1)
             THEN SetPiece(w, cur, [p EXCEPT !.y = p.y + 1])
             ELSE LockClearSpawn(w, type)

(***************************************************************************)
(* handleHandInteraction                                                   *)
(***************************************************************************)
OtherSide(side) == IF side = "left" THEN "right" ELSE "left"

\* Math.round(angleDeg / 90) % 4 for angleDeg = atan2(dy, dx) in [0, 360):
\* the quadrant boundaries 45, 135, 225 and 315 degrees round upward
Quadrant(dx, dy) ==
    IF dx = 0 /\ dy = 0 THEN 0
    ELSE IF dx > 0 /\ -dx <= dy /\ dy < dx THEN 0
    ELSE IF dy > 0 /\ -dy < dx /\ dx <= dy THEN 1
    ELSE IF dx < 0 /\ dx < dy /\ dy <= -dx THEN 2
    ELSE 3

\* the smoothing step of the hand position, factor in tenths
SmoothFactor(interaction) == IF interaction.state = DRAGGING THEN 5 ELSE 3

Smoothed(interaction, raw) ==
    LET s == IF interaction.smoothedPos = Null THEN raw ELSE interaction.smoothedPos
        f == SmoothFactor(interaction)
    IN  <<s[1] + Frac(raw[1] - s[1], f, 10), s[2] + Frac(raw[2] - s[2], f, 10)>>

\* the rotation sensing with one call for a negative difference as well
RotateByGesture_OneCall(w, side, dx, dy, cooldown) ==
    LET it == w.inter[side]
        targetRotation == Quadrant(dx, dy)
        current == IF it.currentRotation = Undefined THEN 0 ELSE it.currentRotation
        cur == w.currentPiece
    IN  IF targetRotation # current /\ it.sinceRotate > cooldown
        THEN At(rotatePiece(w.pieces[cur], w.board), LAMBDA turned :
                 [w EXCEPT !.pieces[cur] = turned,
                           !.inter[side].currentRotation = targetRotation,
                           !.inter[side].sinceRotate = 0])
        ELSE [w EXCEPT !.inter[side].currentRotation = current]

\* the rotation sensing of a play-zone drag: quadrant change plus cooldown,
\* one clockwise call for a positive difference and three for a negative one
RotateByGesture(w, side, dx, dy, cooldown) ==
    LET it == w.inter[side]
        targetRotation == Quadrant(dx, dy)
        current == IF it.currentRotation = Undefined THEN 0 ELSE it.currentRotation
        diff0 == targetRotation - current
        diff == IF diff0 > 2 THEN diff0 - 4 ELSE IF diff0 < -2 THEN diff0 + 4 ELSE diff0
        cur == w.currentPiece
        Twice(p) == At(rotatePiece(p, w.board), LAMBDA q : rotatePiece(q, w.board))
    IN  IF targetRotation # current /\ it.sinceRotate > cooldown
        THEN At(rotatePiece(w.pieces[cur], w.board), LAMBDA once :
                 At(IF diff > 0 THEN once
                    ELSE IF diff < 0 THEN Twice(once) ELSE w.pieces[cur],
                    LAMBDA turned :
                        [w EXCEPT !.pieces[cur] = turned,
                                  !.inter[side].currentRotation = targetRotation,
                                  !.inter[side].sinceRotate = 0]))
        ELSE [w EXCEPT !.inter[side].currentRotation = current]

\* the lateral movement without the canMove test
MoveByGesture_Unchecked(w, side, midX, threshold, cooldown) ==
    LET it == w.inter[side]
        moveX == midX - it.grabX
        direction == IF moveX > 0 THEN 1 ELSE -1
        cur == w.currentPiece
    IN  IF Abs(moveX) > threshold /\ it.sinceMove > cooldown
        THEN [w EXCEPT !.pieces[cur].x = @ + direction,
                       !.inter[side].grabX = midX,
                       !.inter[side].sinceMove = 0]
        ELSE w

\* the lateral movement of a play-zone drag
MoveByGesture(w, side, midX, threshold, cooldown) ==
    LET it == w.inter[side]
        moveX == midX - it.grabX
        direction == IF moveX > 0 THEN 1 ELSE -1
        cur == w.currentPiece
    IN  IF /\ Abs(moveX) > threshold
           /\ it.sinceMove > cooldown
           /\ canMove(w.pieces[cur], w.board, direction, 0)
        THEN [w EXCEPT !.pieces[cur].x = @ + direction,
                       !.inter[side].grabX = midX,
                       !.inter[side].sinceMove = 0]
        ELSE w

\* MOVE_THRESHOLD, MOVE_COOLDOWN, ROTATION_COOLDOWN and the rotation radius
\* of the two-handed and of the single-handed mode
TwoHandMoveThreshold == 30
TwoHandMoveCooldown == 100
TwoHandRotateRadius == 30
TwoHandRotateCooldown == 200
OneHandRotateRadius == 40
OneHandRotateCooldown == 250
OneHandMoveThreshold == 35
OneHandMoveCooldown == 120

\* a DRAGGING frame on the current piece grabbed in the play zone
PlayZoneDrag(w, side, midX, midY) ==
    LET other == w.inter[OtherSide(side)]
        isTwoHanded == other.isPlayZoneGrab /\ other.state = DRAGGING
        cur == w.pieces[w.currentPiece]
        dx == midX - cur.screenX
        dy == midY - cur.screenY
        dist2 == dx * dx + dy * dy
    IN  IF isTwoHanded
        THEN IF side = "left"
             THEN MoveByGesture(w, side, midX, TwoHandMoveThreshold, TwoHandMoveCooldown)
             ELSE IF dist2 > TwoHandRotateRadius * TwoHandRotateRadius
                  THEN RotateByGesture(w, side, dx, dy, TwoHandRotateCooldown) ELSE w
        ELSE At(IF dist2 > OneHandRotateRadius * OneHandRotateRadius
                THEN RotateByGesture(w, side, dx, dy, OneHandRotateCooldown)
                ELSE w,
                LAMBDA turned : MoveByGesture(turned, side, midX,
                                              OneHandMoveThreshold, OneHandMoveCooldown))

\* a free drag that puts the object under the hand, the grab offset ignored
FreeDrag_Snap(w, side, midX, midY) ==
    LET it == w.inter[side]
        t == it.target
        p == w.pieces[t]
        marked == [w EXCEPT !.isDraggingPiece = TRUE, !.draggedPiece = t]
    IN  IF t # 0 /\ it.grabOffset # Null
        THEN SetPiece(marked, t,
                 [p EXCEPT !.targetScreenX = midX, !.targetScreenY = midY,
                           !.screenX = @ + Frac(midX - @, 6, 10),
                           !.screenY = @ + Frac(midY - @, 6, 10)])
        ELSE marked

\* a DRAGGING frame on a spawn-zone or hold object: free drag
FreeDrag(w, side, midX, midY) ==
    LET it == w.inter[side]
        t == it.target
        p == w.pieces[t]
        tx == midX + it.grabOffset[1]
        ty == midY + it.grabOffset[2]
        marked == [w EXCEPT !.isDraggingPiece = TRUE, !.draggedPiece = t]
    IN  IF t # 0 /\ it.grabOffset # Null
        THEN SetPiece(marked, t,
                 [p EXCEPT !.targetScreenX = tx, !.targetScreenY = ty,
                           !.screenX = @ + Frac(tx - @, 6, 10),
                           !.screenY = @ + Frac(ty - @, 6, 10)])
        ELSE marked

\* a grab at the threshold itself
canGrab_AtThreshold(dist) == dist <= GRAB_THRESHOLD

canGrab(dist) == dist < GRAB_THRESHOLD
shouldRelease(dist) == dist > RELEASE_THRESHOLD

\* the IDLE / TARGETING branch
\* the flag set for every grab, play-zone grabs included
MarkGrabbed_Always(w, t, isPlayZoneGrab) == [w EXCEPT !.pieces[t].isGrabbed = TRUE]

\* if (!state.isPlayZoneGrab) state.target.isGrabbed = true
MarkGrabbed(w, t, isPlayZoneGrab) ==
    IF ~isPlayZoneGrab THEN [w EXCEPT !.pieces[t].isGrabbed = TRUE] ELSE w

Seek(w, side, hand, midX, midY) ==
    At(findNearestGrabbablePiece(w, midX, midY), LAMBDA nearest :
      At(IF nearest.piece # 0 /\ nearest.dist2 < TARGET_RADIUS * TARGET_RADIUS
         THEN [w.inter[side] EXCEPT !.state = TARGETING, !.target = nearest.piece,
                                    !.isPlayZoneGrab = nearest.isPlayZone]
         ELSE [w.inter[side] EXCEPT !.state = IDLE, !.target = 0,
                                    !.isPlayZoneGrab = FALSE],
         LAMBDA aimed :
           LET t == aimed.target
           IN  IF canGrab(hand.dist) /\ t # 0
               THEN At(MarkGrabbed(w, t, aimed.isPlayZoneGrab),
                       LAMBDA flagged :
                         SetInter(flagged, side,
                             [aimed EXCEPT !.state = GRABBING,
                                           !.grabOffset = <<w.pieces[t].screenX - midX,
                                                            w.pieces[t].screenY - midY>>,
                                           !.grabAngle = <<hand.angle>>,
                                           !.grabX = midX,
                                           !.sinceMove = 0]))
               ELSE SetInter(w, side, aimed)))

\* the release that resets the state and the target only
Release_KeepTransient(w, side, midX, midY, type, skew) ==
    LET it == w.inter[side]
        piece == it.target
    IN  At(IF piece # 0 /\ ~it.isPlayZoneGrab
           THEN At([w EXCEPT !.pieces[piece].isGrabbed = FALSE],
                   LAMBDA freed : handleDrop(freed, piece, midX, midY, skew))
           ELSE IF it.isPlayZoneGrab /\ piece = w.currentPiece
           THEN hardDrop(w, type)
           ELSE w,
           LAMBDA resolved :
             SetInter(resolved, side, [it EXCEPT !.state = IDLE, !.target = 0]))

\* the release of a GRABBING / DRAGGING hand
Release(w, side, midX, midY, type, skew) ==
    LET it == w.inter[side]
        piece == it.target
    IN  At(IF piece # 0 /\ ~it.isPlayZoneGrab
           THEN At([w EXCEPT !.pieces[piece].isGrabbed = FALSE],
                   LAMBDA freed : handleDrop(freed, piece, midX, midY, skew))
           ELSE IF it.isPlayZoneGrab /\ piece = w.currentPiece
           THEN hardDrop(w, type)
           ELSE w,
           LAMBDA resolved :
             SetInter(resolved, side,
                 [it EXCEPT !.state = IDLE, !.target = 0, !.grabOffset = Null,
                            !.grabAngle = Null, !.isPlayZoneGrab = FALSE,
                            !.currentRotation = Undefined]))

\* the GRABBING / DRAGGING branch
Hold(w, side, hand, midX, midY, type, skew) ==
    IF shouldRelease(hand.dist) THEN Release(w, side, midX, midY, type, skew)
    ELSE At([w EXCEPT !.inter[side].state = DRAGGING], LAMBDA dragging :
             LET it == dragging.inter[side]
             IN  IF it.isPlayZoneGrab /\ it.target = dragging.currentPiece
                 THEN PlayZoneDrag(dragging, side, midX, midY)
                 ELSE FreeDrag(dragging, side, midX, midY))

\* the hand-lost branch without the clearing of the grabbed flag
HandLost_KeepFlag(w, side) ==
    SetInter(w, side, [w.inter[side] EXCEPT !.state = IDLE, !.target = 0,
                                            !.grabAngle = Null])

\* the hand-lost branch resolving a release where the hand was last seen
HandLost_AsRelease(w, side) ==
    IF w.inter[side].state \in {GRABBING, DRAGGING}
    THEN Release(w, side, w.inter[side].smoothedPos[1], w.inter[side].smoothedPos[2],
                 TypeSeq[1], 0)
    ELSE SetInter(w, side, [w.inter[side] EXCEPT !.state = IDLE, !.target = 0,
                                                 !.grabAngle = Null])

\* the branch for a hand that is not detected
HandLost(w, side) ==
    LET it == w.inter[side]
        cleared == IF it.target # 0
                   THEN [w EXCEPT !.pieces[it.target].isGrabbed = FALSE] ELSE w
    IN  SetInter(cleared, side,
            [it EXCEPT !.state = IDLE, !.target = 0, !.grabAngle = Null])

\* the body of the forEach over the two sides
HandleHand(w, side, hand, type, skew) ==
    IF ~hand.present THEN HandLost(w, side)
    ELSE At(Smoothed(w.inter[side], hand.raw), LAMBDA pos :
           At([w EXCEPT !.inter[side].smoothedPos = pos], LAMBDA placed :
              IF placed.inter[side].state = IDLE \/ placed.inter[side].state = TARGETING
              THEN Seek(placed, side, hand, pos[1], pos[2])
              ELSE Hold(placed, side, hand, pos[1], pos[2], type, skew)))

\* lerpFactor = 0.4 + Math.min(dist / 50, 0.4), in thousandths
LerpFactor(dist2) == IF dist2 >= 20 * 20 THEN 800 ELSE 400 + 20 * ISqrt(dist2)

\* allPieces: the current piece, then every hold's stack, nulls filtered out
RECURSIVE HoldPiecesFrom(_, _)
HoldPiecesFrom(w, i) ==
    IF i > MAX_HOLDS THEN <<>> ELSE w.holds[i].pieces \o HoldPiecesFrom(w, i + 1)

allPieces(w) ==
    (IF w.currentPiece # 0 THEN <<w.currentPiece>> ELSE <<>>) \o HoldPiecesFrom(w, 1)

\* the animation loop over allPieces from position k on
RECURSIVE AnimateFrom(_, _, _)
AnimateFrom(w, ids, k) ==
    IF k > Len(ids) THEN w
    ELSE LET p == w.pieces[ids[k]]
             dx == p.targetScreenX - p.screenX
             dy == p.targetScreenY - p.screenY
         IN  IF p.isGrabbed
             THEN At(LerpFactor(dx * dx + dy * dy), LAMBDA lerpFactor :
                    At(SetPiece(w, ids[k],
                           [p EXCEPT !.screenX = @ + Frac(dx, lerpFactor, 1000),
                                     !.screenY = @ + Frac(dy, lerpFactor, 1000)]),
                       LAMBDA moved : AnimateFrom(moved, ids, k + 1)))
             ELSE AnimateFrom(w, ids, k + 1)

\* Null when no hand is DRAGGING
getHandPosition(w) ==
    IF w.inter["left"].smoothedPos # Null /\ w.inter["left"].state = DRAGGING
    THEN w.inter["left"].smoothedPos
    ELSE IF w.inter["right"].smoothedPos # Null /\ w.inter["right"].state = DRAGGING
    THEN w.inter["right"].smoothedPos
    ELSE Null

\* the hold targeting feedback at the end of handleHandInteraction
MarkTargetedHolds(w) ==
    LET handPos == getHandPosition(w)
    IN  IF w.isDraggingPiece /\ w.draggedPiece # 0 /\ handPos # Null
        THEN [w EXCEPT !.holds = [i \in 1..MAX_HOLDS |->
                 [w.holds[i] EXCEPT !.isTargeted =
                     /\ inHoldBounds(i, handPos[1], handPos[2])
                     /\ canAdd(w.holds[i], w.pieces[w.draggedPiece].type)]]]
        ELSE w

\* b is a and c or lies between them, at least half the way to c but for
\* the rounding to whole pixels
Toward(a, b, c) ==
    /\ (a <= b /\ b <= c) \/ (c <= b /\ b <= a)
    /\ 2 * Abs(c - b) <= Abs(c - a) + 2

\* what the processing of a hand that goes from GRABBING to DRAGGING on a
\* spawn-zone or hold object did to the object: "led" says that its target
\* position is the hand's position plus the grab offset, "toward" that its
\* rendered position went toward that, "there" that it is that
FirstDragged(pre, post, side) ==
    LET it == pre.inter[side]
        t == it.target
        hand == post.inter[side].smoothedPos
        tx == hand[1] + it.grabOffset[1]
        ty == hand[2] + it.grabOffset[2]
    IN  IF /\ it.state = GRABBING /\ post.inter[side].state = DRAGGING
           /\ ~it.isPlayZoneGrab /\ t # 0 /\ it.grabOffset # Null
        THEN (IF post.pieces[t].targetScreenX = tx /\ post.pieces[t].targetScreenY = ty
              THEN {"led"} ELSE {})
             \cup (IF /\ Toward(pre.pieces[t].screenX, post.pieces[t].screenX, tx)
                      /\ Toward(pre.pieces[t].screenY, post.pieces[t].screenY, ty)
                   THEN {"toward"} ELSE {})
             \cup (IF post.pieces[t].screenX = tx /\ post.pieces[t].screenY = ty
                   THEN {"there"} ELSE {})
        ELSE {}

\* the piece after n successive calls of rotatePiece on board b
RECURSIVE Calls(_, _, _)
Calls(piece, b, n) == IF n = 0 THEN piece ELSE Calls(rotatePiece(piece, b), b, n - 1)

\* the active piece after the hand is what n calls of rotatePiece make of the
\* active piece before it, the column shift of the same hand apart
Called(pre, post, n) ==
    LET cur == pre.currentPiece
    IN  /\ cur # 0 /\ post.currentPiece = cur
        /\ At(Calls(pre.pieces[cur], pre.board, n), LAMBDA turned :
               \E d \in {-1, 0, 1} : post.pieces[cur] = [turned EXCEPT !.x = @ + d])

\* what the processing of the hand of one side changed: pre and post are the
\* game state before and after it; "grabbed" says that the piece the hand
\* had as its target is flagged as grabbed after it, "rotation" and "shift"
\* that the hand set lastRotateTime and, while holding, lastMoveTime, "one
\* call" and "three calls" how many rotatePiece calls its rotation made, and
\* "x+1", "x-1" and "x+-n" by how many columns the active piece moved
Effect(pre, post, side) ==
    LET cur == pre.currentPiece
        t == pre.inter[side].target
        by == IF cur = 0 THEN 0 ELSE post.pieces[cur].x - pre.pieces[cur].x
    IN  FirstDragged(pre, post, side)
        \cup (IF post.inter[side].sinceRotate = 0 /\ pre.inter[side].sinceRotate # 0
              THEN {"rotation"} \cup (IF Called(pre, post, 1) THEN {"one call"} ELSE {})
                                \cup (IF Called(pre, post, 3) THEN {"three calls"} ELSE {})
              ELSE {})
        \cup (IF /\ pre.inter[side].state \in {GRABBING, DRAGGING}
                 /\ post.inter[side].sinceMove = 0 /\ pre.inter[side].sinceMove # 0
              THEN {"shift"} ELSE {})
        \cup (IF by = 1 THEN {"x+1"} ELSE IF by = -1 THEN {"x-1"}
              ELSE IF by # 0 THEN {"x+-n"} ELSE {})
        \cup (IF t # 0 /\ t \in DOMAIN post.pieces /\ post.pieces[t].isGrabbed
         THEN {"grabbed"} ELSE {})
        \cup (IF \E i \in 1..MAX_HOLDS : \/ pre.holds[i].pieces # post.holds[i].pieces
                                    \/ pre.holds[i].type # post.holds[i].type
         THEN {"holds"} ELSE {})
        \cup (IF pre.board # post.board THEN {"board"} ELSE {})
        \cup (IF cur # post.currentPiece THEN {"currentPiece"} ELSE {})
        \cup (IF cur # 0 /\ (pre.pieces[cur].x # post.pieces[cur].x
                             \/ pre.pieces[cur].y # post.pieces[cur].y)
              THEN {"position"} ELSE {})
        \cup (IF pre.pendingSpawn # post.pendingSpawn THEN {"pendingSpawn"} ELSE {})

handleHandInteraction(w, hands, type, skew) ==
    At([w EXCEPT !.isDraggingPiece = FALSE, !.draggedPiece = 0], LAMBDA start :
      At(HandleHand(start, "left", hands["left"], type, skew), LAMBDA afterLeft :
        At(HandleHand(afterLeft, "right", hands["right"], type, skew), LAMBDA afterRight :
          At(allPieces(afterRight), LAMBDA ids :
            At(AnimateFrom(afterRight, ids, 1), LAMBDA animated :
              At(MarkTargetedHolds(animated), LAMBDA done :
                [done EXCEPT !.effect = [left |-> Effect(start, afterLeft, "left"),
                                         right |-> Effect(afterLeft, afterRight, "right")]]))))))

\* where updatePiecePositions puts piece id of hold h: the loops visit the
\* holds and their stacks in order, so of a piece listed more than once the
\* last listing decides
HoldsOf(w, id) ==
    {i \in 1..MAX_HOLDS : \E k \in 1..Len(w.holds[i].pieces) : w.holds[i].pieces[k] = id}

InHold(w, id) ==
    LET h == CHOOSE i \in HoldsOf(w, id) : \A j \in HoldsOf(w, id) : j <= i
        ps == w.holds[h].pieces
        pieceIdx == CHOOSE k \in 1..Len(ps) :
                        ps[k] = id /\ \A j \in (k + 1)..Len(ps) : ps[j] # id
        cx == HoldX(h) + (HOLD_SLOT_WIDTH \div 2) + (pieceIdx - 1) * 18
                  - (Len(ps) - 1) * 9
        cy == HoldY(h) + (HOLD_SLOT_HEIGHT \div 2) + 5
    IN  [w.pieces[id] EXCEPT !.screenX = cx, !.screenY = cy,
                             !.targetScreenX = cx, !.targetScreenY = cy]

\* the current piece's part of updatePiecePositions
PlaceCurrent(w) ==
    LET cur == w.currentPiece
        p == w.pieces[cur]
        totalSpawnTicks == SPAWN_TICKS + Len(p.shape)
        currentTick == p.y + totalSpawnTicks
        centerX == IF p.inPlayZone
                   THEN offsetX + ((2 * p.x + Len(p.shape[1])) * CELL_SIZE) \div 2
                   ELSE offsetX + (boardWidth \div 2)
        centerY == IF p.inPlayZone
                   THEN offsetY + ((2 * p.y + Len(p.shape)) * CELL_SIZE) \div 2
                   ELSE spawnZoneTop + 30
                        + Frac(currentTick, SPAWN_ZONE_HEIGHT - 50, totalSpawnTicks)
    IN  IF cur # 0 /\ ~p.isGrabbed
        THEN SetPiece(w, cur,
                 [p EXCEPT !.screenX = centerX, !.screenY = centerY,
                           !.targetScreenX = centerX, !.targetScreenY = centerY])
        ELSE w

updatePiecePositions(w) ==
    At(PlaceCurrent(w), LAMBDA placed :
        [placed EXCEPT !.pieces = [id \in DOMAIN placed.pieces |->
            IF HoldsOf(placed, id) # {} /\ ~placed.pieces[id].isGrabbed
            THEN InHold(placed, id) ELSE placed.pieces[id]]])

(***************************************************************************)
(* update                                                                  *)
(***************************************************************************)
NoEffect == [left |-> {}, right |-> {}]

\* the frame's timestamp is dt later than the previous frame's
Advance(w, dt) ==
    [w EXCEPT !.effect = NoEffect,
              !.sinceDrop = Min(@ + dt, dropInterval + 1),
              !.sinceHold = Min(@ + dt, HOLD_SPAWN_DELAY),
              !.inter = [s \in {"left", "right"} |->
                  [w.inter[s] EXCEPT
                      !.sinceRotate = Min(@ + dt, OneHandRotateCooldown + 1),
                      !.sinceMove = Min(@ + dt, OneHandMoveCooldown + 1)]]]

ResetTargeted(w) ==
    [w EXCEPT !.holds = [i \in 1..MAX_HOLDS |-> [w.holds[i] EXCEPT !.isTargeted = FALSE]]]

\* "Check if current piece has entered play zone"
EnterPlayZone(w) ==
    LET cur == w.currentPiece
    IN  IF /\ cur # 0
           /\ ~w.pieces[cur].inPlayZone
           /\ ~w.pieces[cur].isGrabbed
           /\ w.pieces[cur].y >= 0
        THEN [w EXCEPT !.pieces[cur].inPlayZone = TRUE]
        ELSE w

DeferredSpawn_NoDelay(w, type) ==
    IF w.pendingSpawn /\ w.currentPiece = 0
    THEN At(spawnPiece(w, type), LAMBDA spawned : [spawned EXCEPT !.pendingSpawn = FALSE])
    ELSE w

\* update without the deferred spawn
DeferredSpawn_Never(w, type) == w

\* "Spawn new piece after hold delay"
DeferredSpawn(w, type) ==
    IF w.pendingSpawn /\ w.currentPiece = 0 /\ w.sinceHold >= HOLD_SPAWN_DELAY
    THEN At(spawnPiece(w, type), LAMBDA spawned : [spawned EXCEPT !.pendingSpawn = FALSE])
    ELSE w

\* "Auto-drop only if piece is not grabbed and exists"
AutoDrop(w, type) ==
    IF /\ w.currentPiece # 0
       /\ ~w.pieces[w.currentPiece].isGrabbed
       /\ w.sinceDrop > dropInterval
    THEN At([w EXCEPT !.sinceDrop = 0], LAMBDA due : dropPiece(due, type))
    ELSE w

\* the part of update before the hands are looked at
BeforeHands(w, dt, type) ==
    At(Advance(w, dt), LAMBDA timed :
      At(ResetTargeted(timed), LAMBDA reset :
        At(EnterPlayZone(reset), LAMBDA entered : DeferredSpawn(entered, type))))

\* hands = Null stands for update(now, null, null, w, h)
update(w, dt, hands, type, skew) ==
    At(BeforeHands(w, dt, type), LAMBDA ready :
      At(IF hands # Null THEN handleHandInteraction(ready, hands, type, skew) ELSE ready,
         LAMBDA handled :
           At(AutoDrop(handled, type), LAMBDA dropped : updatePiecePositions(dropped))))

(***************************************************************************)
(* State                                                                   *)
(***************************************************************************)
VARIABLES
    board,            \* ROWS x COLS cells, Free or a piece type
    pieces,           \* piece id -> piece object, for every piece still referenced
    currentPiece,     \* id of the active piece, 0 for null
    holds,            \* the MAX_HOLDS hold slots: pieces (ids, bottom first), type, isTargeted
    sinceDrop,        \* currentTime - lastDropTime
    sinceHold,        \* currentTime - lastHoldTime
    pendingSpawn,
    interactionState, \* side -> interaction record
    isDraggingPiece,
    draggedPiece,
    nextId,           \* id the next spawned piece gets
    isRunning,        \* the caller's flag: preview loop before, detect loop after
    frames,           \* tracked frames so far
    last              \* the last call made and what it was given

vars == <<board, pieces, currentPiece, holds, sinceDrop, sinceHold, pendingSpawn,
          interactionState, isDraggingPiece, draggedPiece, nextId, isRunning,
          frames, last>>

World ==
    [board |-> board, pieces |-> pieces, currentPiece |-> currentPiece,
     holds |-> holds, sinceDrop |-> sinceDrop, sinceHold |-> sinceHold,
     pendingSpawn |-> pendingSpawn, inter |-> interactionState,
     isDraggingPiece |-> isDraggingPiece, draggedPiece |-> draggedPiece,
     nextId |-> nextId, effect |-> NoEffect]

\* ids some reference still leads to; the other objects are garbage
Referenced(w) ==
    {w.currentPiece, w.draggedPiece, w.inter["left"].target, w.inter["right"].target}
    \cup UNION {{w.holds[i].pieces[k] : k \in 1..Len(w.holds[i].pieces)} :
                    i \in 1..MAX_HOLDS}

InitialInteraction ==
    [state |-> IDLE, target |-> 0, grabOffset |-> Null, smoothedPos |-> Null,
     grabAngle |-> Null, sinceRotate |-> 0, isPlayZoneGrab |-> FALSE, grabX |-> 0,
     sinceMove |-> 0, currentRotation |-> Undefined]

InitialHold == [pieces |-> <<>>, type |-> "null", isTargeted |-> FALSE]

\* the state the constructor leaves, the first piece being of the given type
Constructed(type) ==
    spawnPiece([board |-> createEmptyBoard, pieces |-> <<>>, currentPiece |-> 0,
                holds |-> [i \in 1..MAX_HOLDS |-> InitialHold],
                sinceDrop |-> 0, sinceHold |-> 0, pendingSpawn |-> FALSE,
                inter |-> [s \in {"left", "right"} |-> InitialInteraction],
                isDraggingPiece |-> FALSE, draggedPiece |-> 0, nextId |-> 1,
                effect |-> NoEffect],
               type)

(***************************************************************************)
(* Inputs of a frame                                                       *)
(***************************************************************************)
\* where a hand's conditioned position may come to rest: inside the spawn
\* zone, over the top rows of the board, inside hold slot 1, inside hold slot 4
InSpawnZone == <<640, 149>>
OverBoard == <<640, 299>>
InHold1 == <<85, 101>>
InHold4 == <<1195, 101>>

HandPoints(side) ==
    IF side = "left" THEN {InSpawnZone, OverBoard, InHold1} ELSE {OverBoard}

\* pinch distances: below the grab threshold, on it, on the release
\* threshold, above it
PinchValues == {50, GRAB_THRESHOLD, RELEASE_THRESHOLD, 200}

\* time between two frames, in ms
FrameGaps == {700}

\* how far performance.now() may have moved on when a drop reads it
ClockSkews == {0, 4}

\* calculateWristAngle of an upright hand
WristAngle == -90

NoHand == [present |-> FALSE, raw |-> Null, dist |-> 0, angle |-> 0]

\* the raw midpoint (mirrored, in pixels) that brings the conditioned
\* position of the hand to p in this frame
RawToward(interaction, p) ==
    IF interaction.smoothedPos = Null THEN p
    ELSE LET s == interaction.smoothedPos
             f == SmoothFactor(interaction)
         IN  <<s[1] + ((p[1] - s[1]) * 10) \div f, s[2] + ((p[2] - s[2]) * 10) \div f>>

HandAt(side, p, d) ==
    [present |-> TRUE, raw |-> RawToward(interactionState[side], p),
     dist |-> d, angle |-> WristAngle]

HandInputs(side) == {HandAt(side, p, d) : p \in HandPoints(side), d \in PinchValues}

\* what the provider may report in a frame: nothing, one of the hands, or
\* both hands over the board
HandPairs ==
    {[left |-> NoHand, right |-> NoHand]}
    \cup {[left |-> l, right |-> NoHand] : l \in HandInputs("left")}
    \cup {[left |-> NoHand, right |-> r] : r \in HandInputs("right")}
    \cup {[left |-> HandAt("left", OverBoard, dl), right |-> HandAt("right", OverBoard, dr)] :
              dl \in {50, 200}, dr \in {50, 200}}

Collect(w) ==
    [w EXCEPT !.pieces = [id \in (DOMAIN w.pieces) \cap Referenced(w) |-> w.pieces[id]]]

Become(w) ==
    /\ board' = w.board
    /\ pieces' = w.pieces
    /\ currentPiece' = w.currentPiece
    /\ holds' = w.holds
    /\ sinceDrop' = w.sinceDrop
    /\ sinceHold' = w.sinceHold
    /\ pendingSpawn' = w.pendingSpawn
    /\ interactionState' = w.inter
    /\ isDraggingPiece' = w.isDraggingPiece
    /\ draggedPiece' = w.draggedPiece
    /\ nextId' = w.nextId

\* the game state is w
Is(w) ==
    /\ board = w.board
    /\ pieces = w.pieces
    /\ currentPiece = w.currentPiece
    /\ holds = w.holds
    /\ sinceDrop = w.sinceDrop
    /\ sinceHold = w.sinceHold
    /\ pendingSpawn = w.pendingSpawn
    /\ interactionState = w.inter
    /\ isDraggingPiece = w.isDraggingPiece
    /\ draggedPiece = w.draggedPiece
    /\ nextId = w.nextId

FirstType == TypeSeq[1]

\* the random types and clock skews that make a difference to this frame
TypesFor(probe) == IF probe.nextId # nextId THEN TypesInPlay ELSE {FirstType}
SkewsFor(probe) == IF probe.sinceHold = 0 THEN ClockSkews ELSE {0}

(***************************************************************************)
(* Actions                                                                 *)
(***************************************************************************)
Init ==
    /\ \E type \in TypesInPlay : Is(Constructed(type))
    /\ isRunning = FALSE
    /\ frames = 0
    /\ last = [op |-> "constructor", piece |-> currentPiece, ticks |-> 0]

\* the game after update with this random type and clock skew; probe is the
\* game after update with the first type and no skew
Frame(now, probe, dt, hands, type, skew) ==
    At(IF type = FirstType /\ skew = 0 THEN probe
       ELSE update(now, dt, hands, type, skew), Collect)

\* the piece a frame's gravity applies to, when the frame leaves the game in w
Falling(w) == IF currentPiece # 0 THEN currentPiece ELSE w.currentPiece

\* the gravity ticks that piece has had since it spawned, this frame's
\* included: update sets lastDropTime when it drops the piece
Ticks(w) ==
    (IF last.op \in {"constructor", "preview"} /\ last.piece = Falling(w)
     THEN last.ticks ELSE 0)
    + (IF w.sinceDrop = 0 THEN 1 ELSE 0)

\* previewLoop: update without hands until tracking starts
Preview ==
    /\ ~isRunning
    /\ \E dt \in FrameGaps, now \in {World} :
         \E probe \in {update(now, dt, Null, FirstType, 0)} :
           \E type \in TypesFor(probe) :
             \E w \in {Frame(now, probe, dt, Null, type, 0)} :
                 /\ w.nextId <= MaxPieces + 1
                 /\ Become(w)
                 /\ last' = [op |-> "preview", piece |-> Falling(w), ticks |-> Ticks(w)]
    /\ UNCHANGED <<isRunning, frames>>

\* start(): the camera plays and detect takes over from previewLoop
Start ==
    /\ ~isRunning
    /\ isRunning' = TRUE
    /\ last' = [op |-> "start"]
    /\ UNCHANGED <<board, pieces, currentPiece, holds, sinceDrop, sinceHold,
                   pendingSpawn, interactionState, isDraggingPiece, draggedPiece,
                   nextId, frames>>

\* what the frame was given, as far as the state does not keep it
Given(side, hand) ==
    [present |-> hand.present, dist |-> hand.dist,
     was |-> interactionState[side].state, target |-> interactionState[side].target]

\* detect: one tracked frame
Detect ==
    /\ isRunning
    /\ \E dt \in FrameGaps, hands \in HandPairs, now \in {World} :
         /\ frames < MaxFrames
         /\ frames' = frames + 1
         /\ \E probe \in {update(now, dt, hands, FirstType, 0)} :
              \E type \in TypesFor(probe), skew \in SkewsFor(probe) :
                \E w \in {Frame(now, probe, dt, hands, type, skew)} :
                    /\ w.nextId <= MaxPieces + 1
                    /\ Become(w)
                    /\ last' = [op |-> "update",
                                hands |-> [left |-> Given("left", hands["left"]),
                                           right |-> Given("right", hands["right"])],
                                effect |-> w.effect]
    /\ UNCHANGED isRunning

Next == Preview \/ Start \/ Detect

Spec == Init /\ [][Next]_vars

(***************************************************************************)
(* Hands in the frames of the running game                                 *)
(***************************************************************************)
\* the last step was a frame of detect in which the hand of the side was
\* reported
Seen(side) == last.op = "update" /\ last.hands[side].present

\* the last step was a frame of detect in which the hand of the side was
\* not reported
Lost(side) == last.op = "update" /\ ~last.hands[side].present

InGrab(state) == state \in {GRABBING, DRAGGING}

InBand(dist) == GRAB_THRESHOLD <= dist /\ dist <= RELEASE_THRESHOLD

\* C3: in a frame where the pinch distance of a hand lies between
\* GRAB_THRESHOLD and RELEASE_THRESHOLD, both included, the hand neither
\* starts nor ends a grab: a hand that was IDLE or TARGETING is IDLE or
\* TARGETING after the frame, a hand that was GRABBING or DRAGGING is
\* GRABBING or DRAGGING after it.
C3_HysteresisBand ==
    \A side \in {"left", "right"} :
        (Seen(side) /\ InBand(last.hands[side].dist))
            => (InGrab(interactionState[side].state) <=> InGrab(last.hands[side].was))

\* a hand that was dragging sits on the release threshold and still drags,
\* and a hand that was targeting sits on the grab threshold and still targets
C3_Witness ==
    \/ /\ Seen("left")
       /\ last.hands["left"].dist = RELEASE_THRESHOLD
       /\ InGrab(last.hands["left"].was)
       /\ interactionState["left"].state = DRAGGING
    \/ /\ Seen("left")
       /\ last.hands["left"].dist = GRAB_THRESHOLD
       /\ last.hands["left"].was = TARGETING
       /\ interactionState["left"].state = TARGETING

C9_AsStated ==
    \A side \in {"left", "right"} :
        Lost(side)
            => /\ interactionState[side].state = IDLE
               /\ interactionState[side].target = 0
               /\ interactionState[side].grabAngle = Null
               /\ interactionState[side].grabOffset = Null
               /\ interactionState[side].isPlayZoneGrab = FALSE
               /\ interactionState[side].currentRotation = Undefined

\* C10: a hand lost while GRABBING or DRAGGING resolves no drop: its
\* processing in that frame leaves the holds, the board, and the identity
\* and the grid position of the active piece as they were.
C10_LostHandDropsNothing ==
    \A side \in {"left", "right"} :
        (Lost(side) /\ InGrab(last.hands[side].was))
            => last.effect[side] \cap {"holds", "board", "currentPiece", "position"} = {}

\* a hand holding the active piece in the play zone is lost: a release
\* there would have dropped the piece to the floor
C10_Witness ==
    /\ Lost("left")
    /\ InGrab(last.hands["left"].was)
    /\ last.hands["left"].target = currentPiece
    /\ currentPiece # 0
    /\ pieces[currentPiece].y >= 0
    /\ interactionState["left"].isPlayZoneGrab

\* the piece is in some hold slot
Stored_In(hs, id) ==
    \E i \in 1..MAX_HOLDS : \E k \in 1..Len(hs[i].pieces) : hs[i].pieces[k] = id

\* the piece the hand of the side has as its target is neither the active
\* piece nor in a hold slot
Stale(side) ==
    LET t == interactionState[side].target
    IN  /\ t # 0
        /\ t # currentPiece
        /\ \A i \in 1..MAX_HOLDS : \A k \in 1..Len(holds[i].pieces) : holds[i].pieces[k] # t

\* C11 as the specification states it: a tracked frame that a hand starts
\* GRABBING or DRAGGING with a stale target leaves the target object as it
\* was and the record of the hand IDLE with no target, whatever the pinch.
C11_AsStated ==
    [][\A side \in {"left", "right"} :
          (isRunning /\ frames' = frames + 1
             /\ InGrab(interactionState[side].state) /\ Stale(side))
          => /\ interactionState'[side].state = IDLE
             /\ interactionState'[side].target = 0
             /\ interactionState[side].target \in DOMAIN pieces'
                   => pieces'[interactionState[side].target]
                        = pieces[interactionState[side].target]]_vars

\* the frame takes the hand of the side from GRABBING to DRAGGING on the
\* active piece grabbed in the spawn zone or on a piece of a hold slot
FirstDrag(side) ==
    /\ last'.op = "update"
    /\ interactionState[side].state = GRABBING
    /\ interactionState'[side].state = DRAGGING
    /\ ~interactionState[side].isPlayZoneGrab
    /\ interactionState[side].target # 0
    /\ \/ interactionState[side].target = currentPiece
       \/ Stored_In(holds, interactionState[side].target)

\* the hand's conditioned position after the frame plus the grab offset
Led(side, k) ==
    interactionState'[side].smoothedPos[k] + interactionState[side].grabOffset[k]

\* the hand is where it was at the grab and the object where the grab
\* found it
AtRest(side) ==
    LET t == interactionState[side].target
    IN  /\ interactionState'[side].smoothedPos = interactionState[side].smoothedPos
        /\ pieces[t].screenX = Led(side, 1)
        /\ pieces[t].screenY = Led(side, 2)

\* C20 as the specification states it: the rendered position of the object
\* is the hand's conditioned position plus the grab offset, be it when the
\* hand has been processed or at the end of the frame of the transition.
C20_AsStated ==
    [][\A side \in {"left", "right"} :
          FirstDrag(side) =>
             LET t == interactionState[side].target
             IN  \/ "there" \in last'.effect[side]
                 \/ /\ pieces'[t].screenX = Led(side, 1)
                    /\ pieces'[t].screenY = Led(side, 2)]_vars

\* C20 amended: the processing of the hand in the frame of the transition
\* sets the target position of the object to the hand's conditioned position
\* plus the grab offset and moves its rendered position toward that, half
\* the way or more and not past it; the rendered position is that target
\* when the hand is where it was at the grab and the object where the grab
\* found it.
C20_RenderedPositionFollows ==
    [][\A side \in {"left", "right"} :
          FirstDrag(side) =>
             /\ {"led", "toward"} \subseteq last'.effect[side]
             /\ AtRest(side) => "there" \in last'.effect[side]]_vars

\* the left hand has gone from the spawn zone to hold 1 in its first frame
\* of dragging the active piece, and the piece is on its way there
C20_Witness ==
    /\ last.op = "update"
    /\ last.hands["left"].was = GRABBING /\ last.hands["left"].present
    /\ interactionState["left"].state = DRAGGING
    /\ ~interactionState["left"].isPlayZoneGrab
    /\ interactionState["left"].target = currentPiece /\ currentPiece # 0
    /\ interactionState["left"].smoothedPos = InHold1
    /\ {"led", "toward"} \subseteq last.effect["left"]
    /\ "there" \notin last.effect["left"]

\* C32: no piece has both the in-play-zone flag and the grabbed flag set, the
\* active piece in particular; and a grab of the active piece in the play
\* zone leaves its grabbed flag clear.
C32_NoGrabbedFlagInPlayZone ==
    /\ \A id \in DOMAIN pieces : ~(pieces[id].inPlayZone /\ pieces[id].isGrabbed)
    /\ \A side \in {"left", "right"} :
          (/\ currentPiece # 0
           /\ interactionState[side].state = GRABBING
           /\ interactionState[side].target = currentPiece
           /\ interactionState[side].isPlayZoneGrab)
          => ~pieces[currentPiece].isGrabbed

C32_Witness ==
    /\ currentPiece # 0
    /\ pieces[currentPiece].inPlayZone
    /\ ~pieces[currentPiece].isGrabbed
    /\ \E side \in {"left", "right"} :
          /\ interactionState[side].state = GRABBING
          /\ interactionState[side].target = currentPiece
          /\ interactionState[side].isPlayZoneGrab

\* the last step was a frame in which the hand of the side, GRABBING or
\* DRAGGING before it, was seen with a pinch above RELEASE_THRESHOLD
LetGoBy(side) ==
    /\ Seen(side)
    /\ InGrab(last.hands[side].was)
    /\ last.hands[side].dist > RELEASE_THRESHOLD

\* C34: after a frame in which a GRABBING or DRAGGING hand was seen with a
\* pinch above RELEASE_THRESHOLD, its record is IDLE without target, grab
\* offset and grab angle, with the play-zone flag and the rotation index
\* cleared, whatever the drop resolved to.
C34_ReleaseClearsRecord ==
    \A side \in {"left", "right"} :
        LetGoBy(side) =>
            /\ interactionState[side].state = IDLE
            /\ interactionState[side].target = 0
            /\ interactionState[side].grabOffset = Null
            /\ interactionState[side].grabAngle = Null
            /\ ~interactionState[side].isPlayZoneGrab
            /\ interactionState[side].currentRotation = Undefined

\* a release that hard-dropped the piece
C34_Witness ==
    \E side \in {"left", "right"} :
        /\ LetGoBy(side)
        /\ "board" \in last.effect[side]
        /\ interactionState[side].state = IDLE

\* C40: a record in TARGETING, GRABBING or DRAGGING has a target and a
\* record in IDLE has none; a record is GRABBING after a frame only if the
\* hand was seen in it with a pinch below GRAB_THRESHOLD and the record was
\* IDLE or TARGETING before, and DRAGGING only if the hand was seen and the
\* record was GRABBING or DRAGGING before.
C40_StatesAndTargets ==
    \A side \in {"left", "right"} :
        /\ interactionState[side].state \in {IDLE, TARGETING, GRABBING, DRAGGING}
        /\ interactionState[side].state = IDLE <=> interactionState[side].target = 0
        /\ interactionState[side].state # IDLE => last.op = "update"
        /\ interactionState[side].state = GRABBING =>
              /\ last.hands[side].present
              /\ last.hands[side].was \in {IDLE, TARGETING}
              /\ last.hands[side].dist < GRAB_THRESHOLD
        /\ interactionState[side].state = DRAGGING =>
              /\ last.hands[side].present
              /\ last.hands[side].was \in {GRABBING, DRAGGING}

\* one hand has gone from TARGETING to GRABBING in the frame in which the
\* other went on DRAGGING
C40_Witness ==
    /\ last.op = "update"
    /\ \E side \in {"left", "right"} :
          /\ interactionState[side].state = GRABBING
          /\ last.hands[side].was = TARGETING
          /\ interactionState[OtherSide(side)].state = DRAGGING
          /\ last.hands[OtherSide(side)].was = DRAGGING

(***************************************************************************)
(* Sessions: tracked frames that follow a played opening                   *)
(***************************************************************************)
\* frames explored after an opening
SessionFrames == 3

\* time between the frames of an opening, in ms
OpeningGap == 700

\* a hand as an opening scripts it: <<>> for no hand, <<x, y, d>> for the
\* conditioned position (x, y) and the pinch distance d
HandFor(w, side, c) ==
    IF c = <<>> THEN NoHand
    ELSE [present |-> TRUE, raw |-> RawToward(w.inter[side], <<c[1], c[2]>>),
          dist |-> c[3], angle |-> WristAngle]

\* one tracked frame of an opening
Scripted(w, c) ==
    At([left |-> HandFor(w, "left", c[1]), right |-> HandFor(w, "right", c[2])],
       LAMBDA hands :
         At(update(w, OpeningGap, hands, FirstType, 0), Collect))

\* the game after the frames k.. of the opening
RECURSIVE Play(_, _, _)
Play(w, opening, k) ==
    IF k > Len(opening) THEN w
    ELSE At(Scripted(w, opening[k]), LAMBDA next : Play(next, opening, k + 1))

NoHands == <<<<>>, <<>>>>
Times(n, c) == [i \in 1..n |-> c]
Pinch == 50
Open == 200
Below == <<640, 399>>
LeftOnly(p, d) == <<<<p[1], p[2], d>>, <<>>>>
Both(pl, dl, pr, dr) == <<<<pl[1], pl[2], dl>>, <<pr[1], pr[2], dr>>>>

\* the O piece falls untouched until it is one row into the board
Untouched == Times(9, NoHands)

\* after that the left hand grabs it and walks it to the right wall, one
\* column a frame
Walked ==
    Untouched \o [i \in 1..5 |-> LeftOnly(<<OverBoard[1] + 40 * (i - 1), OverBoard[2]>>, Pinch)]

\* both hands grab the piece in the spawn zone, the right hand goes away,
\* and the left hand keeps the pinch while the piece falls into the board
HeldLate ==
    <<NoHands, Both(InSpawnZone, Pinch, InSpawnZone, Pinch)>>
    \o Times(7, LeftOnly(InSpawnZone, Pinch))

\* the left hand grabs the piece in the spawn zone and lets it go in hold 1
Stored ==
    <<NoHands, LeftOnly(InSpawnZone, Pinch), LeftOnly(InHold1, Open)>>

Openings == {Untouched, Walked, HeldLate, Stored}

\* where the left hand may be in a frame of a session: on its movement
\* anchor, 40 px to the right of it, below the top of the board, in hold 1
Anchor ==
    IF interactionState["left"].state \in {GRABBING, DRAGGING}
    THEN interactionState["left"].grabX ELSE OverBoard[1]

SessionPairs ==
    {[left |-> l, right |-> r] :
        l \in {NoHand} \cup {HandAt("left", p, d) :
                    p \in {<<Anchor, OverBoard[2]>>, <<Anchor + 40, OverBoard[2]>>,
                           Below, InHold1},
                    d \in {Pinch, Open}},
        r \in {NoHand} \cup {HandAt("right", Below, d) : d \in {Pinch, Open}}}

InitSession ==
    /\ \E opening \in Openings : Is(Play(Constructed("O"), opening, 1))
    /\ isRunning = TRUE
    /\ frames = 0
    /\ last = [op |-> "start", held |-> IF pendingSpawn THEN 0 ELSE HOLD_SPAWN_DELAY]

\* the time since the active piece was last put into a hold slot, by the
\* timestamps of the frames, up to HOLD_SPAWN_DELAY
Held(w, dt) ==
    IF w.pendingSpawn /\ w.sinceHold <= 0 THEN 0
    ELSE Min(last.held + dt, HOLD_SPAWN_DELAY)

\* detect: one tracked frame of a session
Session ==
    /\ isRunning
    /\ \E dt \in FrameGaps, hands \in SessionPairs, now \in {World} :
         /\ frames < SessionFrames
         /\ frames' = frames + 1
         /\ \E probe \in {update(now, dt, hands, FirstType, 0)} :
              \E type \in TypesFor(probe), skew \in SkewsFor(probe) :
                \E w \in {Frame(now, probe, dt, hands, type, skew)} :
                    /\ Become(w)
                    /\ last' = [op |-> "update",
                                hands |-> [left |-> Given("left", hands["left"]),
                                           right |-> Given("right", hands["right"])],
                                effect |-> w.effect,
                                held |-> Held(w, dt),
                                deferred |-> pendingSpawn /\ ~w.pendingSpawn]
    /\ UNCHANGED isRunning

SpecSession == InitSession /\ [][Session]_vars

\* C12 as the specification states it: a piece that has its inPlayZone flag
\* set is in no hold slot after the next frame, whatever the two hands do.
C12_AsStated ==
    [][\A id \in DOMAIN pieces :
          pieces[id].inPlayZone => ~Stored_In(holds', id)]_vars

\* C15: the frame that puts the active piece into a hold slot spawns no
\* piece and leaves the spawn pending, and the deferred spawn happens only in
\* a frame whose timestamp is HOLD_SPAWN_DELAY or more after that frame's.
C15_SpawnWaitsForHoldDelay ==
    [][/\ (currentPiece # 0 /\ Stored_In(holds', currentPiece))
            => (pendingSpawn' /\ nextId' = nextId)
       /\ (pendingSpawn /\ ~pendingSpawn')
            => last'.held >= HOLD_SPAWN_DELAY]_vars

\* the deferred spawn has happened, three frames after the piece was stored
C15_Witness ==
    /\ last.op = "update" /\ last.deferred
    /\ last.held >= HOLD_SPAWN_DELAY
    /\ currentPiece # 0 /\ Stored_In(holds, 1)

\* the hand of the side holds a play-zone grab of the active piece
Holds(inter, cur, side) ==
    /\ InGrab(inter[side].state)
    /\ inter[side].isPlayZoneGrab
    /\ cur # 0 /\ inter[side].target = cur

\* C18 as the specification states it: in a frame that both hands begin and
\* end holding a play-zone grab of the active piece, the left hand issues no
\* rotation and the right hand no column shift.
C18_AsStated ==
    [][(/\ \A side \in {"left", "right"} :
             /\ Holds(interactionState, currentPiece, side)
             /\ Holds(interactionState', currentPiece', side)
        /\ currentPiece' = currentPiece)
       => /\ "rotation" \notin last'.effect["left"]
          /\ "shift" \notin last'.effect["right"]]_vars

\* the frame finds the game in two-handed mode as the left hand sees it, the
\* left hand stays in its grab, 40 px to the right of its movement anchor,
\* and its move cooldown has passed
LeftPushesRight ==
    /\ Holds(interactionState, currentPiece, "left")
    /\ interactionState["right"].state = DRAGGING
    /\ interactionState["right"].isPlayZoneGrab
    /\ last'.op = "update"
    /\ last'.hands["left"].present
    /\ last'.hands["left"].dist <= RELEASE_THRESHOLD
    /\ interactionState'["left"].smoothedPos[1] - interactionState["left"].grabX = 40
    /\ \A dt \in FrameGaps :
          interactionState["left"].sinceMove + dt > TwoHandMoveCooldown

\* C19: in two-handed mode a left hand 40 px to the right of its anchor,
\* its move cooldown passed, shifts the active piece one column to the right
\* if canMove(1, 0) holds and not at all if it does not; and the processing
\* of a hand that issues no rotation never moves the piece by more than one
\* column.
C19_TwoHandedShift ==
    [][/\ LeftPushesRight =>
            IF canMove(pieces[currentPiece], board, 1, 0)
            THEN "x+1" \in last'.effect["left"]
            ELSE last'.effect["left"] \cap {"x+1", "x-1", "x+-n", "shift"} = {}
       /\ \A side \in {"left", "right"} :
            (last'.op = "update" /\ "rotation" \notin last'.effect[side])
                => "x+-n" \notin last'.effect[side]]_vars

\* the left hand has pushed to the right in two-handed mode while the piece
\* stood at the right wall, and the piece has not moved
C19_Witness ==
    /\ last.op = "update"
    /\ last.hands["right"].was = DRAGGING /\ last.hands["right"].present
    /\ last.hands["left"].was = DRAGGING /\ last.hands["left"].present
    /\ \A side \in {"left", "right"} : Holds(interactionState, currentPiece, side)
    /\ interactionState["left"].smoothedPos[1] - interactionState["left"].grabX = 40
    /\ ~canMove(pieces[currentPiece], board, 1, 0)
    /\ last.effect["left"] = {}

\* the hand of the side holds a free-drag grab of the active piece
HoldsFree(inter, cur, side) ==
    /\ InGrab(inter[side].state)
    /\ ~inter[side].isPlayZoneGrab
    /\ cur # 0 /\ inter[side].target = cur

\* C31 as the specification states it: over a frame that a hand begins and
\* ends holding the active piece in a free-drag grab, gravity does not
\* advance the row of that piece.
C31_AsStated ==
    [][\A side \in {"left", "right"} :
          (/\ HoldsFree(interactionState, currentPiece, side)
           /\ HoldsFree(interactionState', currentPiece', side)
           /\ currentPiece' = currentPiece)
          => pieces'[currentPiece].y <= pieces[currentPiece].y]_vars

\* over this step the hand of the side, holding a play-zone grab, is seen
\* with a pinch above RELEASE_THRESHOLD, and the other hand changes nothing
ReleasesInPlay(side) ==
    /\ InGrab(interactionState[side].state)
    /\ interactionState[side].isPlayZoneGrab
    /\ last'.op = "update"
    /\ last'.hands[side].present
    /\ last'.hands[side].dist > RELEASE_THRESHOLD
    /\ last'.effect[OtherSide(side)] = {}

\* the row of the piece when it has gone straight down to where
\* canMove(0, 1) first fails
RestRow(piece, b) ==
    CHOOSE y \in piece.y..ROWS :
        /\ ~canMove([piece EXCEPT !.y = y], b, 0, 1)
        /\ \A above \in piece.y..(y - 1) : canMove([piece EXCEPT !.y = above], b, 0, 1)

\* C35: a release of a play-zone grab of the active piece locks the piece
\* into the board at the row it comes to rest on straight below, clears the
\* full lines and spawns a new piece in that frame; a release of a play-zone
\* grab of another target changes neither the board nor the active piece.
C35_ReleaseInPlayZone ==
    [][\A side \in {"left", "right"} :
          ReleasesInPlay(side) =>
              IF currentPiece # 0 /\ interactionState[side].target = currentPiece
              THEN /\ board' = clearLines(lockPiece(
                                  [pieces[currentPiece] EXCEPT
                                       !.y = RestRow(pieces[currentPiece], board)],
                                  board))
                   /\ \A r \in 1..ROWS : ~RowFull(board'[r])
                   /\ currentPiece' = nextId
                   /\ nextId' = nextId + 1
                   /\ {"board", "currentPiece"} \subseteq last'.effect[side]
              ELSE last'.effect[side] \cap {"board", "currentPiece", "position", "holds"} = {}]_vars

\* a play-zone grab of the active piece was released and the piece locked
\* lower than it was held
C35_Witness ==
    \E side \in {"left", "right"} :
        /\ LetGoBy(side)
        /\ {"board", "currentPiece"} \subseteq last.effect[side]
        /\ last.effect[OtherSide(side)] = {}
        /\ \E r \in 1..ROWS : \E c \in 1..COLS : board[r][c] # Free

LandFrames == 3

\* the columns left open in the two bottom rows, as offsets from the column
\* of the held piece: the two columns under it, those and the next one,
\* the column under its left half and the one before it
LandGaps == {{0, 1}, {0, 1, 2}, {-1, 0}}

\* the left hand grabs the O piece one row into the board
GrabbedInPlay == Untouched \o <<LeftOnly(OverBoard, Pinch)>>

BottomRows(open) ==
    [r \in 1..ROWS |-> [c \in 1..COLS |->
        IF r > ROWS - 2 /\ ~((c - 1) \in open) THEN "I" ELSE Free]]

InitLand ==
    /\ \E gap \in LandGaps, w \in {Play(Constructed("O"), GrabbedInPlay, 1)} :
          Is([w EXCEPT !.board = BottomRows({w.pieces[w.currentPiece].x + d : d \in gap})])
    /\ isRunning = TRUE
    /\ frames = 0
    /\ last = [op |-> "start"]

LandPairs ==
    {[left |-> l, right |-> r] :
        l \in {HandAt("left", <<Anchor + by, OverBoard[2]>>, d) :
                    by \in {0, 40}, d \in {Pinch, Open}},
        r \in {NoHand} \cup {HandAt("right", Below, d) : d \in {Pinch, Open}}}

\* detect: one tracked frame over a board with two nearly full rows
Land ==
    /\ isRunning
    /\ \E dt \in FrameGaps, hands \in LandPairs, now \in {World} :
         /\ frames < LandFrames
         /\ frames' = frames + 1
         /\ \E probe \in {update(now, dt, hands, FirstType, 0)} :
              \E w \in {Frame(now, probe, dt, hands, FirstType, 0)} :
                  /\ Become(w)
                  /\ last' = [op |-> "update",
                              hands |-> [left |-> Given("left", hands["left"]),
                                         right |-> Given("right", hands["right"])],
                              effect |-> w.effect]
    /\ UNCHANGED isRunning

SpecLand == InitLand /\ [][Land]_vars

(***************************************************************************)
(* Two hands between the spawn zone and hold 1                             *)
(***************************************************************************)
\* frames explored after the opening
HoldFrames == 3

\* a piece of the first type is put into hold 1 and the next one has come
Refilled ==
    <<NoHands, LeftOnly(InSpawnZone, Pinch), LeftOnly(InHold1, Open)>>
    \o Times(3, NoHands)

\* the left hand stays at hold 1, the right hand goes between the spawn zone
\* and hold 1
HoldPairs ==
    {[left |-> l, right |-> r] :
        l \in {NoHand} \cup {HandAt("left", InHold1, d) : d \in {Pinch, Open}},
        r \in {NoHand} \cup {HandAt("right", p, d) :
                    p \in {InSpawnZone, InHold1}, d \in {Pinch, Open}}}

InitHolds ==
    /\ Is(Play(Constructed(FirstType), Refilled, 1))
    /\ isRunning = TRUE
    /\ frames = 0
    /\ last = [op |-> "start"]

\* detect: one tracked frame with the hands at hold 1 and the spawn zone
Juggle ==
    /\ isRunning
    /\ \E dt \in FrameGaps, hands \in HoldPairs, now \in {World} :
         /\ frames < HoldFrames
         /\ frames' = frames + 1
         /\ \E probe \in {update(now, dt, hands, FirstType, 0)} :
              \E type \in TypesFor(probe), skew \in SkewsFor(probe) :
                \E w \in {Frame(now, probe, dt, hands, type, skew)} :
                    /\ Become(w)
                    /\ last' = [op |-> "update",
                                hands |-> [left |-> Given("left", hands["left"]),
                                           right |-> Given("right", hands["right"])],
                                effect |-> w.effect]
    /\ UNCHANGED isRunning

SpecHolds == InitHolds /\ [][Juggle]_vars

\* C21 as the specification states it: a hand's target that is in a hold
\* slot is the topmost piece of that slot.
C21_AsStated ==
    \A side \in {"left", "right"} :
        LET t == interactionState[side].target
        IN  (t # 0 /\ Stored_In(holds, t))
              => \E i \in 1..MAX_HOLDS :
                    /\ Len(holds[i].pieces) > 0
                    /\ holds[i].pieces[Len(holds[i].pieces)] = t

\* C22 as the specification states it: what a frame makes of the game
\* depends only on the arguments of update and the random piece type, not on
\* the clock that handleDrop reads, and the frame that puts the active piece
\* into a hold slot leaves the hold delay counted from its own timestamp.
C22_AsStated ==
    [][/\ \A dt \in FrameGaps, hands \in HoldPairs, type \in TypesInPlay :
            \A skew \in ClockSkews :
                update(World, dt, hands, type, skew) = update(World, dt, hands, type, 0)
       /\ (currentPiece # 0 /\ Stored_In(holds', currentPiece) /\ currentPiece' = 0)
            => sinceHold' = 0]_vars

\* the places of a piece in the hold slots: slot and index in its stack
PlacesOf(id) ==
    {ik \in (1..MAX_HOLDS) \X (1..MAX_PER_HOLD) :
        /\ ik[2] <= Len(holds[ik[1]].pieces)
        /\ holds[ik[1]].pieces[ik[2]] = id}

\* C39: every piece is at most once in the stacks of the hold slots, and
\* the active piece is in none of them.
C39_NoPieceInTwoPlaces ==
    /\ \A i \in 1..MAX_HOLDS : Len(holds[i].pieces) <= MAX_PER_HOLD
    /\ \A id \in DOMAIN pieces : Cardinality(PlacesOf(id)) <= 1
    /\ currentPiece # 0 => PlacesOf(currentPiece) = {}

\* a hand has put into a hold slot the piece that the other hand still holds
C39_Witness ==
    /\ last.op = "update"
    /\ \E side \in {"left", "right"} :
          /\ "holds" \in last.effect[side]
          /\ last.hands[side].target # 0
          /\ InGrab(interactionState[OtherSide(side)].state)
          /\ interactionState[OtherSide(side)].target = last.hands[side].target
          /\ PlacesOf(last.hands[side].target) # {}

(***************************************************************************)
(* A hand circling the active piece                                        *)
(***************************************************************************)
\* frames explored after the grab
CircleFrames == 4

\* time between the frames of the gesture, in ms: inside and outside the
\* rotation cooldowns
CircleGaps == {100, 300}

\* the T piece falls untouched until it is one row into the board, and the
\* right hand grabs it there
Circled == Untouched \o <<<<<<>>, <<OverBoard[1], OverBoard[2], Pinch>>>>>>

\* distance of the circling hand from the centre of the piece, in px
CircleRadius == 50

\* where the right hand may be: to the right of the piece, below it, to the
\* left of it, above it
Around ==
    LET c == IF currentPiece = 0 THEN OverBoard
             ELSE <<pieces[currentPiece].screenX, pieces[currentPiece].screenY>>
    IN  {<<c[1] + CircleRadius, c[2]>>, <<c[1], c[2] + CircleRadius>>,
         <<c[1] - CircleRadius, c[2]>>, <<c[1], c[2] - CircleRadius>>}

\* the left hand is away or pinches at the centre of the piece
CirclePairs ==
    {[left |-> l, right |-> r] :
        l \in {NoHand} \cup {HandAt("left", OverBoard, Pinch)},
        r \in {HandAt("right", p, Pinch) : p \in Around}}

\* the quadrant a hand had applied last, 0 for none
Applied(side) ==
    IF interactionState[side].currentRotation = Undefined THEN 0
    ELSE interactionState[side].currentRotation

InitCircle ==
    /\ Is(Play(Constructed("T"), Circled, 1))
    /\ isRunning = TRUE
    /\ frames = 0
    /\ last = [op |-> "start",
               turned |-> [left |-> OneHandRotateCooldown + 1,
                           right |-> OneHandRotateCooldown + 1]]

\* detect: one tracked frame of the gesture; turned is the time since the
\* hand's last rotation by the timestamps of the frames, up to the cooldown,
\* and from the quadrant the hand had applied before the frame
Circle ==
    /\ isRunning
    /\ \E dt \in CircleGaps, hands \in CirclePairs, now \in {World} :
         /\ frames < CircleFrames
         /\ frames' = frames + 1
         /\ \E w \in {Frame(now, update(now, dt, hands, FirstType, 0), dt, hands,
                            FirstType, 0)} :
              /\ Become(w)
              /\ last' = [op |-> "update",
                          hands |-> [left |-> Given("left", hands["left"]),
                                     right |-> Given("right", hands["right"])],
                          effect |-> w.effect,
                          gap |-> dt,
                          from |-> [s \in {"left", "right"} |-> Applied(s)],
                          turned |-> [s \in {"left", "right"} |->
                              IF "rotation" \in w.effect[s] THEN 0
                              ELSE Min(last.turned[s] + dt, OneHandRotateCooldown + 1)]]
    /\ UNCHANGED isRunning

SpecCircle == InitCircle /\ [][Circle]_vars

\* the quadrant difference of the frame for a hand, wrapped into -2..2
Wrapped(side) ==
    LET diff == Applied(side)' - Applied(side)
    IN  IF diff > 2 THEN diff - 4 ELSE IF diff < -2 THEN diff + 4 ELSE diff

\* the quadrant the hand is in after the frame, seen from the active piece
HandQuadrant(side) ==
    Quadrant(interactionState'[side].smoothedPos[1] - pieces[currentPiece].screenX,
             interactionState'[side].smoothedPos[2] - pieces[currentPiece].screenY)

\* C24: a frame in which a hand triggers a rotation finds that hand in a
\* quadrant other than the one it had applied last, more than the two-handed
\* rotation cooldown after that hand's last rotation, and more than the
\* single-handed cooldown if the other hand has no play-zone grab; the hand
\* applies that quadrant, and a positive wrapped difference makes one
\* rotatePiece call of the frame, a negative one three.
C24_RotationTrigger ==
    [][\A side \in {"left", "right"} :
          "rotation" \in last'.effect[side] =>
              /\ HandQuadrant(side) # Applied(side)
              /\ Applied(side)' = HandQuadrant(side)
              /\ last.turned[side] + last'.gap > TwoHandRotateCooldown
              /\ (/\ ~interactionState[OtherSide(side)].isPlayZoneGrab
                  /\ ~interactionState'[OtherSide(side)].isPlayZoneGrab)
                     => last.turned[side] + last'.gap > OneHandRotateCooldown
              /\ Wrapped(side) > 0 => "one call" \in last'.effect[side]
              /\ Wrapped(side) < 0 => "three calls" \in last'.effect[side]]_vars

\* the right hand has gone back from quadrant 1 to quadrant 0 and has turned
\* the T piece by three calls, which one call would not have done
C24_Witness ==
    /\ last.op = "update"
    /\ last.from["right"] = 1 /\ Applied("right") = 0
    /\ "rotation" \in last.effect["right"]
    /\ "three calls" \in last.effect["right"]
    /\ "one call" \notin last.effect["right"]

(***************************************************************************)
(* The game left alone: previewLoop only                                   *)
(***************************************************************************)
SpecGravity == Init /\ [][Preview]_vars

\* the board holds one piece of some type, locked on the floor below its
\* spawn column, and nothing else
LockedAtBottom ==
    \E type \in AllTypes :
        board = lockPiece([NewPiece(type) EXCEPT !.y = ROWS - Len(SHAPES(type))],
                          createEmptyBoard)

\* the active piece is a second piece, where spawnPiece puts it
FreshlySpawned ==
    /\ currentPiece = 2
    /\ \E type \in AllTypes :
          /\ pieces[2].type = type /\ pieces[2].shape = SHAPES(type)
          /\ pieces[2].x = NewPiece(type).x /\ pieces[2].y = NewPiece(type).y

\* what C5 says as it stands: left alone, the first piece is locked on the
\* bottom row and a new piece is spawned once it has had ROWS gravity ticks
C5_AsStated ==
    (last.op = "preview" /\ last.piece = 1 /\ last.ticks = ROWS) =>
        (LockedAtBottom /\ FreshlySpawned)

\* C5: left alone from its spawn position on an empty board, a piece is
\* locked on the bottom row and a new piece is spawned by its gravity tick
\* number ROWS + SPAWN_TICKS + 1 (SPAWN_TICKS plus its height to reach row
\* 0, ROWS minus its height to reach the floor, one more to lock); until
\* then it is still the active piece and the board is empty.
C5_LockedAfterSpawnTicksAndRows ==
    (last.op = "preview" /\ last.piece = 1) =>
        IF last.ticks = ROWS + SPAWN_TICKS + 1
        THEN LockedAtBottom /\ FreshlySpawned
        ELSE /\ last.ticks < ROWS + SPAWN_TICKS + 1
             /\ currentPiece = 1
             /\ board = createEmptyBoard

\* the first piece has had its tick number ROWS + SPAWN_TICKS + 1
C5_Witness ==
    /\ last.op = "preview" /\ last.piece = 1
    /\ last.ticks = ROWS + SPAWN_TICKS + 1
    /\ LockedAtBottom /\ FreshlySpawned

(***************************************************************************)
(* The game left alone on a stack that nears the top                       *)
(***************************************************************************)
\* O pieces drawn under the spawn column, and the frames that follow
StackMax == 9
StackFrames == 20

\* the board after k O pieces have fallen untouched, one onto the other
StackBoard(k) ==
    [r \in 1..ROWS |->
        IF r > ROWS - 2 * k
        THEN [c \in 1..COLS |-> IF c - 1 \in {NewPiece("O").x, NewPiece("O").x + 1}
                                THEN "O" ELSE Free]
        ELSE EmptyRow]

InitStack ==
    /\ \E k \in 0..StackMax :
          Is([Constructed("O") EXCEPT !.board = StackBoard(k)])
    /\ isRunning = FALSE
    /\ frames = 0
    /\ last = [op |-> "drawn"]

\* previewLoop: update without hands
Descend ==
    /\ ~isRunning
    /\ frames < StackFrames
    /\ frames' = frames + 1
    /\ \E dt \in FrameGaps, now \in {World} :
         \E probe \in {update(now, dt, Null, FirstType, 0)} :
           \E type \in TypesFor(probe) :
             \E w \in {Frame(now, probe, dt, Null, type, 0)} :
                 /\ Become(w)
                 /\ last' = [op |-> "preview"]
    /\ UNCHANGED isRunning

SpecStack == InitStack /\ [][Descend]_vars

\* C13 as the specification states it: no filled cell of the active piece
\* that lies in a board row is on an occupied cell of the board.
C13_AsStated ==
    currentPiece # 0 =>
        \A rc \in Cells(pieces[currentPiece].shape) :
            LET boardX == pieces[currentPiece].x + rc[2]
                boardY == pieces[currentPiece].y + rc[1]
            IN  (boardY >= 0 /\ boardY < ROWS /\ boardX >= 0 /\ boardX < COLS)
                    => board[boardY + 1][boardX + 1] = Free

(***************************************************************************)
(* rotatePiece on drawn pieces and boards                                  *)
(***************************************************************************)
\* shape after n clockwise quarter turns
RECURSIVE Turn(_, _)
Turn(shape, n) == IF n = 0 THEN shape ELSE Turn(Rotated(shape), n - 1)

\* a board whose columns in walls (counted from 0) are filled from top to bottom
Walled(walls) ==
    [r \in 1..ROWS |-> [c \in 1..COLS |-> IF (c - 1) \in walls THEN "I" ELSE Free]]

\* no wall, one wall, or two walls with a gap of one or two columns
WallSets ==
    {{}} \cup {{c} : c \in 0..(COLS - 1)}
         \cup {{c, c + 2} : c \in 0..(COLS - 3)}
         \cup {{c, c + 3} : c \in 0..(COLS - 4)}

\* rows the drawn piece starts at: above the board, at its top, near its floor
DrawnRows == {-1, 0, ROWS - 2, ROWS - 1}

InitRotate ==
    /\ \E type \in AllTypes, n \in 0..3, x \in -2..(COLS - 1), y \in DrawnRows,
          walls \in WallSets :
          Is([Constructed(type) EXCEPT
                 !.board = Walled(walls),
                 !.pieces[1] = [@ EXCEPT !.shape = Turn(SHAPES(type), n),
                                         !.x = x, !.y = y, !.inPlayZone = TRUE]])
    /\ isRunning = FALSE
    /\ frames = 0
    /\ last = [op |-> "drawn"]

\* this.rotatePiece(this.currentPiece)
Rotate ==
    /\ pieces' = [pieces EXCEPT ![currentPiece] = rotatePiece(@, board)]
    /\ last' = [op |-> "rotatePiece", piece |-> pieces[currentPiece]]
    /\ UNCHANGED <<board, currentPiece, holds, sinceDrop, sinceHold, pendingSpawn,
                   interactionState, isDraggingPiece, draggedPiece, nextId,
                   isRunning, frames>>

SpecRotate == InitRotate /\ [][Rotate]_vars

\* the piece with its shape turned once and moved dx columns
TurnedAt(piece, dx) == [piece EXCEPT !.shape = Rotated(@), !.x = @ + dx]

\* neither the rotation in place nor any of the four kicks can be placed
NothingFits(piece, b) == \A dx \in {0, -1, 1, -2, 2} : ~canPlace(TurnedAt(piece, dx), b)

\* C2: whenever rotatePiece was called on a piece that could be placed, the
\* piece can be placed afterwards; and whenever neither the rotation in place
\* nor any of the four kicks could be placed, the piece has the shape it had
\* before the call.
C2_RotateKeepsPlacement ==
    last.op = "rotatePiece" =>
        /\ canPlace(last.piece, board) => canPlace(pieces[currentPiece], board)
        /\ NothingFits(last.piece, board) =>
               pieces[currentPiece].shape = last.piece.shape

\* a placeable piece was rotated and accepted at a wall-kick offset
C2_Witness ==
    /\ last.op = "rotatePiece"
    /\ canPlace(last.piece, board)
    /\ pieces[currentPiece].shape # last.piece.shape
    /\ pieces[currentPiece].x # last.piece.x

\* C23: whenever rotatePiece was called on a piece for which neither the
\* rotation in place nor any of the four wall-kick offsets could be placed,
\* the piece's x and y after the call are the ones it had before the call.
C23_FailedRotationKeepsPosition ==
    (last.op = "rotatePiece" /\ NothingFits(last.piece, board)) =>
        /\ pieces[currentPiece].x = last.piece.x
        /\ pieces[currentPiece].y = last.piece.y

\* a placed piece other than O was rotated and fitted at none of the offsets
C23_Witness ==
    /\ last.op = "rotatePiece"
    /\ last.piece.type # "O"
    /\ canPlace(last.piece, board)
    /\ NothingFits(last.piece, board)
    /\ pieces[currentPiece] = last.piece

\* the three rotatePiece calls of a negative quadrant difference
RotateBack ==
    /\ pieces' = [pieces EXCEPT ![currentPiece] = Calls(@, board, 3)]
    /\ last' = [op |-> "three calls", piece |-> pieces[currentPiece]]
    /\ UNCHANGED <<board, currentPiece, holds, sinceDrop, sinceHold, pendingSpawn,
                   interactionState, isDraggingPiece, draggedPiece, nextId,
                   isRunning, frames>>

\* columns (counted from 0) under and beside the drawn piece, and the
\* heights their stacks of locked cells may have
StackedColumns == 2..6
StackHeights == {0, 2, 4}

\* a board whose columns are filled from the floor up to their heights
Skyline(heights) ==
    [r \in 1..ROWS |-> [c \in 1..COLS |->
        IF (c - 1) \in DOMAIN heights /\ r > ROWS - heights[c - 1] THEN "I" ELSE Free]]

\* rows the drawn piece starts at: on the stacks or among them
SunkRows == {ROWS - 5, ROWS - 4}

\* column the drawn piece starts at
SunkColumn == 3

InitRotateBack ==
    /\ \E type \in AllTypes, n \in 0..3, y \in SunkRows,
          heights \in [StackedColumns -> StackHeights] :
          Is([Constructed(type) EXCEPT
                 !.board = Skyline(heights),
                 !.pieces[1] = [@ EXCEPT !.shape = Turn(SHAPES(type), n),
                                         !.x = SunkColumn, !.y = y,
                                         !.inPlayZone = TRUE]])
    /\ isRunning = FALSE
    /\ frames = 0
    /\ last = [op |-> "drawn"]

SpecRotateBack == InitRotateBack /\ [][RotateBack]_vars

\* the piece turned a quarter counter-clockwise and moved dx columns
TurnedBackAt(piece, dx) == [piece EXCEPT !.shape = Turn(@, 3), !.x = @ + dx]

\* C25 as the specification states it: after the three calls on a piece that
\* could be placed, the piece has
\* the shape it had before them turned a quarter counter-clockwise, or, if
\* that orientation can be placed neither in place nor at a wall-kick offset,
\* the shape it had before them.
C25_AsStated ==
    (last.op = "three calls" /\ canPlace(last.piece, board)) =>
        pieces[currentPiece].shape =
            IF \E dx \in {0, -1, 1, -2, 2} : canPlace(TurnedBackAt(last.piece, dx), board)
            THEN Turn(last.piece.shape, 3)
            ELSE last.piece.shape

(***************************************************************************)
(* canMove on drawn pieces and boards                                      *)
(***************************************************************************)
\* columns and rows the drawn piece starts at: at the walls and between
\* them, above the board and near its floor
ProbeColumns == {-1, 0, 3, COLS - 3}
ProbeRows == {-2, -1, ROWS - 4, ROWS - 3}

\* the boards: empty, or one column filled from top to bottom
ProbeWalls == {{}, {0}, {4}, {COLS - 1}}

\* offsets canMove is asked about
Offsets == {-1, 0, 1}

InitProbe ==
    /\ \E type \in AllTypes, n \in 0..3, x \in ProbeColumns, y \in ProbeRows,
          walls \in ProbeWalls :
          /\ Is([Constructed(type) EXCEPT
                    !.board = Walled(walls),
                    !.pieces[1] = [@ EXCEPT !.shape = Turn(SHAPES(type), n),
                                            !.x = x, !.y = y]])
          /\ canPlace(pieces[1], board)
    /\ isRunning = FALSE
    /\ frames = 0
    /\ last = [op |-> "drawn"]

\* this.canMove(dx, dy)
Probe ==
    /\ \E dx \in Offsets, dy \in Offsets :
         last' = [op |-> "canMove", dx |-> dx, dy |-> dy,
                  result |-> canMove(pieces[currentPiece], board, dx, dy)]
    /\ UNCHANGED <<board, pieces, currentPiece, holds, sinceDrop, sinceHold,
                   pendingSpawn, interactionState, isDraggingPiece, draggedPiece,
                   nextId, isRunning, frames>>

SpecProbe == InitProbe /\ [][Probe]_vars

\* the board cells the filled cells of the active piece land on when the
\* piece is moved by (dx, dy), as <<row, column>>
Landing(dx, dy) ==
    {<<pieces[currentPiece].y + rc[1] + dy, pieces[currentPiece].x + rc[2] + dx>> :
        rc \in Cells(pieces[currentPiece].shape)}

\* C29: canMove(dx, dy) returns what canPlace returns for the active piece
\* moved by (dx, dy), and it returns false exactly when a filled cell lands
\* outside the columns 0..COLS-1, at a row >= ROWS, or on an occupied cell of a
\* row >= 0: what the board holds does not count for cells above row 0.
C29_CanMoveIsCanPlace ==
    last.op = "canMove" =>
        /\ last.result =
              canPlace([pieces[currentPiece] EXCEPT !.x = @ + last.dx, !.y = @ + last.dy],
                       board)
        /\ ~last.result <=>
              \E cell \in Landing(last.dx, last.dy) :
                  \/ cell[2] < 0 \/ cell[2] >= COLS
                  \/ cell[1] >= ROWS
                  \/ cell[1] >= 0 /\ board[cell[1] + 1][cell[2] + 1] # Free

\* canMove returned true for a move that brings a cell of the piece above
\* row 0 in a column that is filled, and another cell into the board
C29_Witness ==
    /\ last.op = "canMove" /\ last.result
    /\ \E cell \in Landing(last.dx, last.dy) :
          /\ cell[1] < 0
          /\ cell[2] \in 0..(COLS - 1)
          /\ board[1][cell[2] + 1] # Free
    /\ \E cell \in Landing(last.dx, last.dy) : cell[1] >= 0

(***************************************************************************)
(* clearLines on drawn boards                                              *)
(***************************************************************************)
FullRow == [c \in 1..COLS |-> "I"]

\* a row that is not full and differs from every other row's: row counted from 0
MarkedRow(row) ==
    [c \in 1..COLS |-> IF c = (row % COLS) + 1
                       THEN (IF row < COLS THEN "I" ELSE "O") ELSE Free]

\* the rows in full filled, the others marked or empty
DrawnBoard(full, marked) ==
    [r \in 1..ROWS |-> IF (r - 1) \in full THEN FullRow
                       ELSE IF marked THEN MarkedRow(r - 1) ELSE EmptyRow]

\* no full row, one, or two
FullSets == {{}} \cup {{k, j} : k \in 0..(ROWS - 1), j \in 0..(ROWS - 1)}

InitClear ==
    /\ \E full \in FullSets, marked \in BOOLEAN :
          Is([Constructed(FirstType) EXCEPT !.board = DrawnBoard(full, marked)])
    /\ isRunning = FALSE
    /\ frames = 0
    /\ last = [op |-> "drawn"]

\* this.clearLines()
ClearLines ==
    /\ board' = clearLines(board)
    /\ last' = [op |-> "clearLines", board |-> board]
    /\ UNCHANGED <<pieces, currentPiece, holds, sinceDrop, sinceHold, pendingSpawn,
                   interactionState, isDraggingPiece, draggedPiece, nextId,
                   isRunning, frames>>

SpecClear == InitClear /\ [][ClearLines]_vars

\* indexes (from 0) of the full rows of a board
FullRows(b) == {k \in 0..(ROWS - 1) : RowFull(b[k + 1])}

\* C4: when clearLines was called on a board with exactly one full row, at
\* index k, the board has an empty row at index 0, the rows that were at
\* indexes 0..k-1 one index lower down in the same order, and the rows
\* below index k where they were.
C4_ClearOneRow ==
    (last.op = "clearLines" /\ Cardinality(FullRows(last.board)) = 1) =>
        LET k == CHOOSE i \in FullRows(last.board) : TRUE
        IN  /\ board[1] = EmptyRow
            /\ \A i \in 0..(k - 1) : board[i + 2] = last.board[i + 1]
            /\ \A i \in (k + 1)..(ROWS - 1) : board[i + 1] = last.board[i + 1]

\* clearLines was called on a board of marked rows whose only full row has
\* rows above it and rows below it
C4_Witness ==
    /\ last.op = "clearLines"
    /\ \E k \in 1..(ROWS - 2) : FullRows(last.board) = {k}
    /\ \A i \in 0..(ROWS - 1) : last.board[i + 1] # EmptyRow

NotFull(row) == ~RowFull(row)

\* C38: after clearLines the board has ROWS rows of COLS cells and no full
\* row, and the rows that were not full are its bottom rows, with their
\* contents and in the order they had.
C38_ClearLinesLeavesNoFullRow ==
    last.op = "clearLines" =>
        LET kept == SelectSeq(last.board, NotFull)
        IN  /\ DOMAIN board = 1..ROWS
            /\ \A r \in 1..ROWS : DOMAIN board[r] = 1..COLS /\ ~RowFull(board[r])
            /\ \A i \in 1..Len(kept) : board[ROWS - Len(kept) + i] = kept[i]

\* clearLines was called on a board of marked rows with two full rows that
\* have other rows between them
C38_Witness ==
    /\ last.op = "clearLines"
    /\ \E k \in 0..(ROWS - 1), j \in 0..(ROWS - 1) :
          /\ j > k + 1
          /\ FullRows(last.board) = {k, j}
    /\ \A i \in 0..(ROWS - 1) : last.board[i + 1] # EmptyRow
    /\ \A r \in 1..ROWS : ~RowFull(board[r])

(***************************************************************************)
(* handleDrop, with the steps of update that bring new pieces              *)
(***************************************************************************)
\* where a release may happen: in hold slot 1, in hold slot 4, in the spawn
\* zone, over the board
DropPoints == {InHold1, InHold4, InSpawnZone, OverBoard}

\* the pieces findNearestGrabbablePiece looks at
Grabbable == {Candidate(World, i) : i \in 0..MAX_HOLDS} \ {0}

\* the release of a hand whose target is piece id at point at: the grabbed
\* flag cleared, then handleDrop(piece, midX, midY)
Drop ==
    /\ \E id \in Grabbable, at \in DropPoints :
         /\ \E freed \in {[World EXCEPT !.pieces[id].isGrabbed = FALSE]} :
              Become(handleDrop(freed, id, at[1], at[2], 0))
         /\ last' = [op |-> "handleDrop", piece |-> id, at |-> at]
    /\ UNCHANGED <<isRunning, frames>>

\* update once the hold delay has passed: the deferred spawn
Respawn ==
    /\ pendingSpawn /\ currentPiece = 0
    /\ nextId <= MaxSupply
    /\ \E type \in TypesInPlay, late \in {[World EXCEPT !.sinceHold = HOLD_SPAWN_DELAY]} :
         Become(DeferredSpawn(late, type))
    /\ last' = [op |-> "spawnPiece"]
    /\ UNCHANGED <<isRunning, frames>>

NextDrop == Drop \/ Respawn

SpecDrop == Init /\ [][NextDrop]_vars

\* C1: no hold slot ever contains more than MAX_PER_HOLD pieces, and all
\* pieces of a slot have the same piece type.
C1_HoldSlotInvariant ==
    \A i \in 1..MAX_HOLDS :
        /\ Len(holds[i].pieces) <= MAX_PER_HOLD
        /\ \A j, k \in 1..Len(holds[i].pieces) :
               pieces[holds[i].pieces[j]].type = pieces[holds[i].pieces[k]].type

\* a piece was dropped on a slot that was full already with pieces of its type
C1_Witness ==
    /\ last.op = "handleDrop"
    /\ \E i \in 1..MAX_HOLDS :
         /\ inHoldBounds(i, last.at[1], last.at[2])
         /\ Len(holds[i].pieces) = MAX_PER_HOLD
         /\ \A k \in 1..MAX_PER_HOLD : holds[i].pieces[k] # last.piece
         /\ holds[i].type = pieces[last.piece].type

\* the first slot whose tolerance rectangle holds the point, 0 if none
SlotAt(at) ==
    IF \E i \in 1..MAX_HOLDS : inHoldBounds(i, at[1], at[2])
    THEN CHOOSE i \in 1..MAX_HOLDS :
             /\ inHoldBounds(i, at[1], at[2])
             /\ \A j \in 1..(i - 1) : ~inHoldBounds(j, at[1], at[2])
    ELSE 0

\* slot i is full or holds a piece of another type than piece id
Refuses(i, id) ==
    \/ Len(holds[i].pieces) >= MAX_PER_HOLD
    \/ \E k \in 1..Len(holds[i].pieces) :
           pieces[holds[i].pieces[k]].type # pieces[id].type

Without(stack, id) == SelectSeq(stack, LAMBDA e : e # id)

\* C7: a release of a piece at a point within a hold slot that has free
\* capacity and is untyped or of the piece's type takes the piece from where
\* it was (the active piece is cleared if it was the active piece, the slot
\* it was in loses it) and puts it on top of that slot's stack, whose type
\* becomes the piece's type; an empty slot ends with that one piece.
C7_AcceptedDropMovesPiece ==
    [][(/\ last'.op = "handleDrop"
        /\ SlotAt(last'.at) # 0
        /\ Len(holds[SlotAt(last'.at)].pieces) < MAX_PER_HOLD
        /\ holds[SlotAt(last'.at)].type \in {"null", pieces[last'.piece].type})
       => LET i == SlotAt(last'.at)
              id == last'.piece
          IN  /\ holds'[i].pieces = Append(Without(holds[i].pieces, id), id)
              /\ holds'[i].type = pieces[id].type
              /\ \A j \in (1..MAX_HOLDS) \ {i} :
                     holds'[j].pieces = Without(holds[j].pieces, id)
              /\ id = currentPiece => currentPiece' = 0
              /\ Len(holds[i].pieces) = 0 => Len(holds'[i].pieces) = 1]_vars

\* a piece was dropped on a slot and lies on top of another piece there,
\* while the slot a transfer would come from holds a piece too
C7_Witness ==
    /\ last.op = "handleDrop"
    /\ SlotAt(last.at) # 0
    /\ Len(holds[SlotAt(last.at)].pieces) = 2
    /\ holds[SlotAt(last.at)].pieces[2] = last.piece
    /\ \E j \in (1..MAX_HOLDS) \ {SlotAt(last.at)} : Len(holds[j].pieces) > 0

\* C14 as the specification states it: a piece that stops being the active
\* piece is in a hold slot, or has been locked into the board, after the
\* step; a promotion from a hold never makes the active piece disappear.
C14_AsStated ==
    [][(currentPiece # 0 /\ currentPiece' # currentPiece)
          => \/ Stored_In(holds', currentPiece)
             \/ board' # board]_vars

(***************************************************************************)
(* handleDrop when the active piece may have entered the board             *)
(***************************************************************************)
\* pieces spawned in all
SwapSupply == 3

\* the gravity ticks that bring the active piece from the spawn zone to row 0
RECURSIVE Descended(_)
Descended(w) ==
    IF w.pieces[w.currentPiece].y < 0
    THEN At(dropPiece(w, FirstType), Descended)
    ELSE w

Enter ==
    /\ currentPiece # 0
    /\ pieces[currentPiece].y < 0
    /\ Become(Descended(World))
    /\ last' = [op |-> "dropPiece"]
    /\ UNCHANGED <<isRunning, frames>>

\* update once the hold delay has passed: the deferred spawn
RespawnFew ==
    /\ pendingSpawn /\ currentPiece = 0
    /\ nextId <= SwapSupply
    /\ \E type \in TypesInPlay, late \in {[World EXCEPT !.sinceHold = HOLD_SPAWN_DELAY]} :
         Become(DeferredSpawn(late, type))
    /\ last' = [op |-> "spawnPiece"]
    /\ UNCHANGED <<isRunning, frames>>

NextSwap == Drop \/ RespawnFew \/ Enter

SpecSwap == Init /\ [][NextSwap]_vars

\* the slot the piece is in, 0 if none
SlotOf(id) ==
    IF Stored_In(holds, id)
    THEN CHOOSE i \in 1..MAX_HOLDS : \E k \in 1..Len(holds[i].pieces) : holds[i].pieces[k] = id
    ELSE 0

\* the release is at a point of the spawn-zone rectangle, outside every
\* slot, of a piece that is in a slot
Promotes ==
    /\ last'.op = "handleDrop"
    /\ SlotAt(last'.at) = 0
    /\ last'.at[1] >= offsetX /\ last'.at[1] <= offsetX + boardWidth
    /\ last'.at[2] >= spawnZoneTop /\ last'.at[2] <= spawnZoneBottom
    /\ SlotOf(last'.piece) # 0

\* C16: a release of a piece from a hold slot at a point inside the
\* spawn-zone rectangle takes the piece from its slot, which becomes untyped
\* if that empties it; an active piece still in the spawn zone goes on the
\* slot if the slot is then below capacity and untyped or of its type, and
\* only then; the released piece becomes the active piece, horizontally
\* centred, at the spawn entry row, with inPlayZone clear.
C16_PromotionFromHold ==
    [][Promotes =>
        LET id == last'.piece
            src == SlotOf(id)
            rest == Without(holds[src].pieces, id)
            cur == currentPiece
            swap == /\ cur # 0
                    /\ ~pieces[cur].inPlayZone
                    /\ Len(rest) < MAX_PER_HOLD
                    /\ (Len(rest) = 0 \/ holds[src].type = pieces[cur].type)
        IN  /\ holds'[src].pieces = IF swap THEN Append(rest, cur) ELSE rest
            /\ holds'[src].type = IF swap THEN pieces[cur].type
                                  ELSE IF Len(rest) = 0 THEN "null" ELSE holds[src].type
            /\ \A j \in (1..MAX_HOLDS) \ {src} : holds'[j] = holds[j]
            /\ currentPiece' = id
            /\ pieces'[id].x = (COLS - Len(pieces[id].shape[1])) \div 2
            /\ pieces'[id].y = -SPAWN_TICKS - Len(pieces[id].shape)
            /\ ~pieces'[id].inPlayZone]_vars

\* a piece was released from a slot into the spawn zone while the active
\* piece was in the spawn zone, and the active piece has taken its place in
\* the slot
C16_Witness ==
    /\ last.op = "handleDrop" /\ last.at = InSpawnZone
    /\ currentPiece = last.piece
    /\ \E i \in 1..MAX_HOLDS :
          /\ Len(holds[i].pieces) = 1
          /\ holds[i].pieces[1] > last.piece
          /\ pieces[holds[i].pieces[1]].y < 0

\* C26: the type tag of a hold slot is null exactly when the slot is empty,
\* and otherwise it is the type of every piece in the slot.
C26_TypeTagOfSlot ==
    \A i \in 1..MAX_HOLDS :
        /\ holds[i].type = "null" <=> holds[i].pieces = <<>>
        /\ \A k \in 1..Len(holds[i].pieces) :
               pieces[holds[i].pieces[k]].type = holds[i].type

\* the first piece, of one type, was released from slot 1 into the spawn
\* zone and the second piece, of the other type, has taken its place there:
\* the slot that emptied has the second piece's type
C26_Witness ==
    /\ last.op = "handleDrop" /\ last.at = InSpawnZone /\ last.piece = 1
    /\ currentPiece = 1 /\ ~pendingSpawn
    /\ holds[1].pieces = <<2>>
    /\ pieces[1].type # pieces[2].type
    /\ holds[1].type = pieces[2].type

OnSeam == <<85, HoldY(1) + HOLD_SLOT_HEIGHT + HoldTolerance>>

SeamPoints == {InHold1, OnSeam, InSpawnZone}

\* the release of a hand whose target is piece id at point at
DropNearSeam ==
    /\ \E id \in Grabbable, at \in SeamPoints :
         /\ \E freed \in {[World EXCEPT !.pieces[id].isGrabbed = FALSE]} :
              Become(handleDrop(freed, id, at[1], at[2], 0))
         /\ last' = [op |-> "handleDrop", piece |-> id, at |-> at]
    /\ UNCHANGED <<isRunning, frames>>

NextSeam == DropNearSeam \/ Respawn

SpecSeam == Init /\ [][NextSeam]_vars

\* slot i has free capacity and is untyped or of the type of piece id
Accepts(i, id) ==
    /\ Len(holds[i].pieces) < MAX_PER_HOLD
    /\ holds[i].type \in {"null", pieces[id].type}

\* C27 as the specification states it: a piece released at a point within
\* the tolerance rectangle of a slot that has free capacity and is untyped
\* or of the piece's type is in a hold slot after the release.
C27_AsStated ==
    [][(/\ last'.op = "handleDrop"
        /\ \E i \in 1..MAX_HOLDS :
              /\ inHoldBounds(i, last'.at[1], last'.at[2])
              /\ Accepts(i, last'.piece))
       => Stored_In(holds', last'.piece)]_vars

\* C28: a release at a point within the tolerance rectangle of a hold slot
\* is resolved against the first such slot only: either the piece ends on
\* top of that slot, or slots and active piece stay as they were; no other
\* slot gains a piece, no other piece changes its place, and the spawn-zone
\* rule is not applied: the released piece does not become the active piece
\* and keeps its grid position. No release both puts the piece into a slot
\* and makes it the active piece.
C28_HoldSlotsFirst ==
    [][/\ last'.op = "handleDrop"
            => ~(Stored_In(holds', last'.piece) /\ currentPiece' = last'.piece)
       /\ (last'.op = "handleDrop" /\ SlotAt(last'.at) # 0)
          => LET i == SlotAt(last'.at)
                 id == last'.piece
             IN  /\ \/ /\ Len(holds'[i].pieces) > 0
                       /\ holds'[i].pieces[Len(holds'[i].pieces)] = id
                       /\ Without(holds'[i].pieces, id) = Without(holds[i].pieces, id)
                    \/ holds' = holds /\ currentPiece' = currentPiece
                 /\ \A j \in (1..MAX_HOLDS) \ {i} :
                        \/ holds'[j].pieces = holds[j].pieces
                        \/ holds'[j].pieces = Without(holds[j].pieces, id)
                 /\ currentPiece' = IF Stored_In(holds', id) /\ id = currentPiece
                                    THEN 0 ELSE currentPiece
                 /\ pieces'[id].x = pieces[id].x /\ pieces'[id].y = pieces[id].y]_vars

\* a piece that was in slot 1 was released on the line that the rectangles
\* of slots 1 and 2 share while the active piece was in the spawn zone: it
\* is in slot 1, on top of another piece, slot 2 is empty and the active
\* piece is the active piece still
C28_Witness ==
    /\ last.op = "handleDrop" /\ last.at = OnSeam
    /\ Len(holds[1].pieces) = 2 /\ holds[1].pieces[2] = last.piece
    /\ holds[2].pieces = <<>>
    /\ currentPiece # 0 /\ currentPiece > last.piece
    /\ ~pieces[currentPiece].inPlayZone

(***************************************************************************)
(* Gravity ticks from the spawn zone to row 0, with stores and promotions   *)
(***************************************************************************)
\* rows into the board the ticks are followed
EntryDepth == 1

InitEntry ==
    /\ \E type \in TypesInPlay : Is(Constructed(type))
    /\ isRunning = FALSE
    /\ frames = 0
    /\ last = [op |-> "constructor", ticks |-> 0, entered |-> {}]

\* dropPiece of a frame whose drop interval has passed; ticks counts the
\* ticks the active piece has had since it became the active piece, and
\* entered collects the counts at which pieces were marked in-play-zone
Tick ==
    /\ currentPiece # 0
    /\ pieces[currentPiece].y < EntryDepth
    /\ \E w \in {dropPiece(World, FirstType)} :
         /\ Become(w)
         /\ last' = [op |-> "dropPiece", ticks |-> last.ticks + 1,
                     entered |-> IF /\ w.pieces[currentPiece].inPlayZone
                                    /\ ~pieces[currentPiece].inPlayZone
                                 THEN last.entered \cup {last.ticks + 1}
                                 ELSE last.entered]
    /\ UNCHANGED <<isRunning, frames>>

\* the release of a free drag at slot 1 or in the spawn zone: a piece
\* grabbed in the play zone is hard-dropped instead
LetGo ==
    /\ \E id \in Grabbable, at \in {InHold1, InSpawnZone} :
         /\ ~pieces[id].inPlayZone
         /\ \E freed \in {[World EXCEPT !.pieces[id].isGrabbed = FALSE]} :
              \E w \in {handleDrop(freed, id, at[1], at[2], 0)} :
                 /\ Become(w)
                 /\ last' = [op |-> "handleDrop",
                             ticks |-> IF w.currentPiece = currentPiece
                                       THEN last.ticks ELSE 0,
                             entered |-> last.entered]
    /\ UNCHANGED <<isRunning, frames>>

\* update once the hold delay has passed: the deferred spawn
SpawnLate ==
    /\ pendingSpawn /\ currentPiece = 0
    /\ nextId <= SwapSupply
    /\ \E type \in TypesInPlay, late \in {[World EXCEPT !.sinceHold = HOLD_SPAWN_DELAY]} :
         Become(DeferredSpawn(late, type))
    /\ last' = [op |-> "spawnPiece", ticks |-> 0, entered |-> last.entered]
    /\ UNCHANGED <<isRunning, frames>>

NextEntry == Tick \/ LetGo \/ SpawnLate

SpecEntry == InitEntry /\ [][NextEntry]_vars

AimFrames == 2

InHold2 == <<85, 191>>
NearHold1 == <<175, 100>>
RightOnly(p, d) == <<<<>>, <<p[1], p[2], d>>>>

\* the right hand stores a piece in hold 1 and the next one in hold 2
TwoSlots ==
    <<NoHands, RightOnly(InSpawnZone, Pinch), RightOnly(InHold1, Open)>>
    \o Times(4, NoHands)
    \o <<RightOnly(InSpawnZone, Pinch), RightOnly(InHold2, Open)>>
    \o Times(4, NoHands)

\* after that it grabs the third piece in the spawn zone and drags it to
\* the right of hold 1
DraggedOver ==
    TwoSlots \o <<RightOnly(InSpawnZone, Pinch)>> \o Times(3, RightOnly(NearHold1, Pinch))

\* the interactables in the order findNearestGrabbablePiece visits them,
\* with their squared distances from (x, y)
Interactables(w, x, y) ==
    [i \in {j \in 0..MAX_HOLDS : Candidate(w, j) # 0} |->
        [piece |-> Candidate(w, i), dist2 |-> Dist2(x, y, w.pieces[Candidate(w, i)])]]

\* where the free hand may come to rest: on an interactable, half way
\* between two of them, on the targeting radius of one, one pixel inside
\* it, and far from all of them
AimPoints ==
    LET at == {<<pieces[Candidate(World, i)].screenX, pieces[Candidate(World, i)].screenY>> :
                   i \in {j \in 0..MAX_HOLDS : Candidate(World, j) # 0}}
    IN  {<<(a[1] + b[1]) \div 2, (a[2] + b[2]) \div 2>> : a \in at, b \in at}
        \cup {<<a[1] + r, a[2]>> : a \in at, r \in {TARGET_RADIUS - 1, TARGET_RADIUS}}
        \cup {Below}

AimPairs ==
    {[left |-> HandAt("left", p, d),
      right |-> IF InGrab(interactionState["right"].state)
                THEN HandAt("right", interactionState["right"].smoothedPos, Pinch)
                ELSE NoHand] : p \in AimPoints, d \in {Pinch, Open}}

InitAim ==
    /\ \E opening \in {TwoSlots, DraggedOver} : Is(Play(Constructed(FirstType), opening, 1))
    /\ isRunning = TRUE
    /\ frames = 0
    /\ last = [op |-> "start"]

\* detect: one tracked frame in which the left hand, handled first, is free
\* to aim
Aim ==
    /\ isRunning
    /\ \E dt \in FrameGaps, hands \in AimPairs, now \in {World} :
         /\ frames < AimFrames
         /\ frames' = frames + 1
         /\ \E probe \in {update(now, dt, hands, FirstType, 0)} :
              \E w \in {Frame(now, probe, dt, hands, FirstType, 0)} :
                  /\ Become(w)
                  /\ last' = [op |-> "aim",
                              hands |-> [left |-> Given("left", hands["left"]),
                                         right |-> Given("right", hands["right"])],
                              seen |-> Interactables(BeforeHands(now, dt, FirstType),
                                                     w.inter["left"].smoothedPos[1],
                                                     w.inter["left"].smoothedPos[2])]
    /\ UNCHANGED isRunning

SpecAim == InitAim /\ [][Aim]_vars

\* the last step was a frame in which the left hand was seeking
Sought == last.op = "aim" /\ last.hands["left"].was \in {IDLE, TARGETING}

\* the interactables the hand saw that no other one precedes: nearer, or
\* as near and visited earlier
Foremost ==
    {i \in DOMAIN last.seen :
        \A j \in DOMAIN last.seen :
            \/ last.seen[i].dist2 < last.seen[j].dist2
            \/ last.seen[i].dist2 = last.seen[j].dist2 /\ i <= j}

\* C33: after a frame in which a hand was seen in IDLE or TARGETING, its
\* target is the interactable nearest to its smoothed position when that
\* distance is below TARGET_RADIUS, the active piece before the hold pieces
\* and a lower slot before a higher one on equal distances, and otherwise
\* the hand is IDLE without target.
C33_TargetIsNearest ==
    Sought =>
        IF \E i \in DOMAIN last.seen : last.seen[i].dist2 < TARGET_RADIUS * TARGET_RADIUS
        THEN /\ \E i \in Foremost : interactionState["left"].target = last.seen[i].piece
             /\ Cardinality(Foremost) = 1
             /\ interactionState["left"].state \in {TARGETING, GRABBING}
        ELSE /\ interactionState["left"].state = IDLE
             /\ interactionState["left"].target = 0

\* the hand was as near to the dragged active piece as to the top piece of
\* a hold, within the radius, and has the active piece as target
C33_Witness ==
    /\ Sought
    /\ 0 \in Foremost
    /\ \E j \in DOMAIN last.seen :
          /\ j > 0 /\ last.seen[j].dist2 = last.seen[0].dist2
          /\ last.seen[j].piece # last.seen[0].piece
    /\ last.seen[0].dist2 < TARGET_RADIUS * TARGET_RADIUS
    /\ interactionState["left"].target = currentPiece

(***************************************************************************)
(* The loop that keeps calling update, while one hand stores the active    *)
(* piece in hold 1 and takes pieces back                                   *)
(***************************************************************************)
\* pieces spawned in one run of the loop
LoopSupply == 2

LoopHands ==
    {[left |-> l, right |-> NoHand] :
        l \in {NoHand, HandAt("left", InSpawnZone, Pinch), HandAt("left", InHold1, Open)}}

InitLoop ==
    /\ \E opening \in {<<>>, Stored} : Is(Play(Constructed(FirstType), opening, 1))
    /\ isRunning = TRUE
    /\ frames = 0
    /\ last = [op |-> "start", was |-> currentPiece]

\* detect: one tracked frame; the loop requests the next one itself
Loop ==
    /\ isRunning
    /\ \E dt \in FrameGaps, hands \in LoopHands, now \in {World} :
         \E w \in {Frame(now, update(now, dt, hands, FirstType, 0), dt, hands, FirstType, 0)} :
             /\ w.nextId <= LoopSupply + 1
             /\ Become(w)
             /\ last' = [op |-> "update", was |-> currentPiece]
    /\ UNCHANGED <<isRunning, frames>>

SpecLoop == InitLoop /\ [][Loop]_vars

\* requestAnimationFrame calls detect again after every frame
SpecLoopFair == SpecLoop /\ WF_vars(Loop)

\* C36: whenever there is no active piece a deferred spawn is pending, and
\* as long as pieces are left to spawn, the loop that keeps calling update
\* with later timestamps leads to a state with an active piece again.
C36_SpawnPendingAndDue ==
    /\ [](currentPiece = 0 => pendingSpawn)
    /\ (currentPiece = 0 /\ nextId <= LoopSupply) ~> (currentPiece # 0)

\* the deferred spawn has ended a time without active piece
C36_Witness ==
    /\ last.op = "update"
    /\ last.was = 0
    /\ currentPiece # 0
    /\ ~pendingSpawn
    /\ ~Stored_In(holds, currentPiece)

(***************************************************************************)
(* A piece held at a wall of the board, moved and rotated there            *)
(***************************************************************************)
WallFrames == 3

\* the left hand grabs the piece in the board and walks it to the left wall
WalkedLeft ==
    Untouched \o [i \in 1..5 |-> LeftOnly(<<OverBoard[1] - 40 * (i - 1), OverBoard[2]>>, Pinch)]

\* the left hand keeps its pinch, on its anchor or 40 px to either side of
\* it; the right hand is away or pinches on one of the four sides of the piece
WallPairs ==
    {[left |-> HandAt("left", <<Anchor + by, OverBoard[2]>>, Pinch), right |-> r] :
        by \in {-40, 0, 40},
        r \in {NoHand} \cup {HandAt("right", p, Pinch) : p \in Around}}

InitWall ==
    /\ \E type \in {"I", "T", "L"}, opening \in {Walked, WalkedLeft} :
          Is(Play(Constructed(type), opening, 1))
    /\ isRunning = TRUE
    /\ frames = 0
    /\ last = [op |-> "start"]

\* detect: one tracked frame with the piece held at a wall
AtWall ==
    /\ isRunning
    /\ \E dt \in CircleGaps, hands \in WallPairs, now \in {World} :
         /\ frames < WallFrames
         /\ frames' = frames + 1
         /\ \E w \in {Frame(now, update(now, dt, hands, FirstType, 0), dt, hands,
                            FirstType, 0)} :
              /\ Become(w)
              /\ last' = [op |-> "update",
                          hands |-> [left |-> Given("left", hands["left"]),
                                     right |-> Given("right", hands["right"])],
                          effect |-> w.effect]
    /\ UNCHANGED isRunning

SpecWall == InitWall /\ [][AtWall]_vars

\* C37: every filled cell of the active piece is in a column of the board
\* and above its floor: in 0..COLS-1 and in a row below ROWS.
C37_ActivePieceInBounds ==
    currentPiece # 0 =>
        \A rc \in Cells(pieces[currentPiece].shape) :
            /\ pieces[currentPiece].x + rc[2] \in 0..(COLS - 1)
            /\ pieces[currentPiece].y + rc[1] < ROWS

\* a rotation has kicked the piece off the wall it was held at
C37_Witness ==
    /\ last.op = "update"
    /\ currentPiece # 0
    /\ \E side \in {"left", "right"} :
          /\ "rotation" \in last.effect[side]
          /\ last.effect[side] \cap {"x+1", "x-1", "x+-n"} # {}

=============================================================================
